---- MODULE Spec2Model ----
(***************************************************************************)
(* The Diet Builder page (src/unnamed/part_000): diet rows, shown nutrient *)
(* columns, the amount cache filled by cancellable fetches, the targets    *)
(* (goal/max) with their localStorage persistence, and the derived rows,   *)
(* totals and over-max flags.                                              *)
(*                                                                         *)
(* JavaScript numbers are fixed-point values in thousandths, extended with *)
(* NaN, +Infinity and -Infinity; null/undefined is a value of its own.     *)
(*   Num(78000) is 78.0,  Num(450) is 0.45.                                *)
(* Raw user input (the value of a text or number input) is a string.       *)
(***************************************************************************)
EXTENDS Integers, Sequences, FiniteSets, TLC

(***************************************************************************)
(* Bounds of the model.                                                    *)
(***************************************************************************)
\* the diet sheet (Spec): rows added in one behaviour, and amount fetches
\* awaited at a time (cancelled ones included)
MaxRowIds == 2
MaxAwaited == 1
\* the amount resolver (SpecFetch): the same two
MaxFetchRowIds == 1
MaxInflight == 2
\* the food catalog and the add form (SpecCatalog): food queries awaited at a time
MaxCatalogSearches == 1
\* the food search (SpecSearch): food queries awaited at a time (cancelled ones
\* included)
MaxSearches == 2

(***************************************************************************)
(* JavaScript values.                                                      *)
(***************************************************************************)
\* every value is a record of one shape: k its kind, v its magnitude (numbers),
\* s its text (strings)
Num(n) == [k |-> "num", v |-> n, s |-> ""]
NaN == [k |-> "nan", v |-> 0, s |-> ""]
Infinity == [k |-> "inf", v |-> 1, s |-> ""]
NegInfinity == [k |-> "inf", v |-> -1, s |-> ""]
Null == [k |-> "null", v |-> 0, s |-> ""]
Str(t) == [k |-> "str", v |-> 0, s |-> t]

Sign(n) == IF n.k = "inf" THEN n.v ELSE IF n.v > 0 THEN 1 ELSE IF n.v < 0 THEN -1 ELSE 0

\* Number.isFinite(n)
IsFinite(n) == n.k = "num"

\* Number.isNaN(n)
IsNaN(n) == n.k = "nan"

\* the truthiness of a value: 0, NaN, null and "" are falsy
Truthy(n) == \/ n.k = "inf"
             \/ n.k = "num" /\ n.v # 0
             \/ n.k = "str" /\ n.s # ""

\* x || 0
OrZero(n) == IF Truthy(n) THEN n ELSE Num(0)

\* x ?? y
Coalesce(x, y) == IF x.k = "null" THEN y ELSE x

\* Number(s) of a string: "" is 0, a numeral its value, other text NaN
NumberOfString(t) ==
    CASE t = ""         -> Num(0)
      [] t = "0"        -> Num(0)
      [] t = "0.045"    -> Num(45)
      [] t = "15"       -> Num(15000)
      [] t = "100"      -> Num(100000)
      [] t = "150"      -> Num(150000)
      [] t = "167"      -> Num(167000)
      [] t = "-5"       -> Num(-5000)
      [] t = "-15"      -> Num(-15000)
      [] t = "Infinity" -> Infinity
      [] t = "-Infinity" -> NegInfinity
      [] OTHER          -> NaN

\* Number(x): Number(null) is 0, a number is itself
Number(x) ==
    CASE x.k = "str"  -> NumberOfString(x.s)
      [] x.k = "null" -> Num(0)
      [] OTHER        -> x

\* a + b
Add(a, b) ==
    IF a.k = "nan" \/ b.k = "nan" THEN NaN
    ELSE IF a.k = "inf" /\ b.k = "inf" THEN (IF a.v = b.v THEN a ELSE NaN)
    ELSE IF a.k = "inf" THEN a
    ELSE IF b.k = "inf" THEN b
    ELSE Num(a.v + b.v)

\* (per100 * grams) / 100.  The amounts of the model are multiples of 0.1 and
\* the finite grams whole numbers, so the quotient is exact in thousandths.
Per100Times(per100, grams) ==
    IF per100.k = "nan" \/ grams.k = "nan" THEN NaN
    ELSE IF per100.k = "inf" \/ grams.k = "inf"
         THEN (IF Sign(per100) * Sign(grams) = 0 THEN NaN
               ELSE IF Sign(per100) * Sign(grams) > 0 THEN Infinity ELSE NegInfinity)
    ELSE Num((per100.v \div 100) * (grams.v \div 1000))

\* a > b on numbers
Gt(a, b) ==
    IF a.k = "nan" \/ b.k = "nan" THEN FALSE
    ELSE IF a.k = "inf" /\ b.k = "inf" THEN a.v > b.v
    ELSE IF a.k = "inf" THEN a.v > 0
    ELSE IF b.k = "inf" THEN b.v < 0
    ELSE a.v > b.v

Range(q) == {q[i] : i \in 1..Len(q)}

\* round(n, digits = 2): Math.round rounds half towards +Infinity
round(n) ==
    IF n.k = "null" \/ n.k = "nan" THEN Num(0)
    ELSE IF n.k = "inf" THEN n
    ELSE Num(((n.v + 5) \div 10) * 10)

\* Number(x) handed on without the Number.isFinite test
safeNumUnchecked(x) == Number(x)

\* safeNum(x)
safeNum(x) == IF IsFinite(Number(x)) THEN Number(x) ELSE Null

(***************************************************************************)
(* The remote tables (the Supabase collaborator), fixed for a behaviour.   *)
(***************************************************************************)
\* nutrients, as the query returns them: ordered by display_name
NutrientsTable ==
    << [id |-> "n_cal", key |-> "calories", display_name |-> "Calories",
        default_goal |-> Null, default_max |-> Num(150000)],
       [id |-> "n_pro", key |-> "protein", display_name |-> "Protein",
        default_goal |-> Num(50000), default_max |-> Null] >>

NutrientIds == {NutrientsTable[i].id : i \in 1..Len(NutrientsTable)}

\* a row of the nutrients table without defaults
NutrientRow(key) ==
    [id |-> "n_" \o key, key |-> key, display_name |-> key,
     default_goal |-> Null, default_max |-> Null]

NutrientRows(keys) == [i \in 1..Len(keys) |-> NutrientRow(keys[i])]

\* keys that are not in PREFERRED_KEYS, in display-name order
OtherKeys ==
    << "alcohol", "biotin", "caffeine", "calcium", "chloride", "choline", "copper",
       "iodine", "selenium", "water", "zinc" >>

\* what the nutrients query can answer with, each ordered by display_name: the
\* table above, no row, rows with preferred keys in another order than
\* PREFERRED_KEYS, rows without a preferred key (more and fewer than 10), one
\* preferred key among others, and more preferred keys than columns
Catalogs ==
    { NutrientsTable,
      <<>>,
      NutrientRows(<<"calories", "carbs", "fat", "protein">>),
      NutrientRows(OtherKeys),
      NutrientRows(SubSeq(OtherKeys, 1, 3)),
      NutrientRows(SubSeq(OtherKeys, 1, 7) \o <<"iron">> \o SubSeq(OtherKeys, 8, 11)),
      NutrientRows(<<"b12", "calories", "carbs", "cholesterol", "fat", "fiber", "folate",
                     "iron", "magnesium", "omega_3", "potassium", "protein", "sodium",
                     "sugar", "vitamin_c", "water">>) }

\* foods_global, ordered by name
FoodsTable ==
    << [id |-> "apple", name |-> "Apple"],
       [id |-> "banana", name |-> "Banana"] >>

FoodIds == {FoodsTable[i].id : i \in 1..Len(FoodsTable)}

\* name ILIKE %q% for the queries of the model
ILike(name, q) ==
    CASE q = ""    -> TRUE
      [] q = "ban" -> name = "Banana"
      [] OTHER     -> FALSE

\* .from("foods_global").order("name").limit(50), .ilike("name", `%q%`) when q is not blank
SearchFoods(q) == SelectSeq(FoodsTable, LAMBDA f : ILike(f.name, q))

\* food_nutrients_global: sparse, banana has no protein row
FoodNutrientsTable ==
    << [food_id |-> "apple", nutrient_id |-> "n_cal", amount_per_100g |-> Num(52000)],
       [food_id |-> "apple", nutrient_id |-> "n_pro", amount_per_100g |-> Num(300)],
       [food_id |-> "banana", nutrient_id |-> "n_cal", amount_per_100g |-> Num(89000)] >>

\* .from("food_nutrients_global").in("food_id", foodIds).in("nutrient_id", nutrientIds)
SelectFoodNutrients(foodIds, nutrientIds) ==
    SelectSeq(FoodNutrientsTable,
              LAMBDA r : r.food_id \in foodIds /\ r.nutrient_id \in nutrientIds)

\* prefer showing these nutrients first
PREFERRED_KEYS ==
    << "calories", "energy_kcal", "protein", "fat", "total_fat", "carbs", "fiber",
       "sugar", "cholesterol", "omega_3", "omega_6", "sodium", "potassium",
       "vitamin_c", "vitamin_a", "magnesium", "iron", "b12", "folate" >>

\* list.slice(0, 10)
FallbackCount == 10
\* .slice(0, 12)
MaxShown == 12

\* q.slice(0, n)
Slice(q, n) == SubSeq(q, 1, IF Len(q) < n THEN Len(q) ELSE n)

(***************************************************************************)
(* localStorage.  A stored string is a value of one shape: k its kind      *)
(* ("absent": no item; "garbage": text JSON.parse throws on; "scalar":     *)
(* JSON that is no object; "json": the JSON of a target map), v the map.   *)
(***************************************************************************)
EmptyMap == [n \in {} |-> [goal |-> Null, max |-> Null]]

Stored(kind, map) == [k |-> kind, v |-> map]

\* JSON.stringify of a number or null: NaN and the infinities become null
JsonNumber(x) == IF x.k = "num" THEN x ELSE Null

\* JSON.stringify(targets)
JSONstringify(map) ==
    Stored("json", [n \in DOMAIN map |-> [goal |-> JsonNumber(map[n].goal),
                                         max |-> JsonNumber(map[n].max)]])

\* what the storage may hold when the page is constructed: nothing, text that
\* is no JSON, JSON that is no object, or the map a prior session persisted
PriorOverrides == [n \in {"n_cal"} |-> [goal |-> Null, max |-> Num(167000)]]

PriorMaps ==
    { EmptyMap, PriorOverrides,
      [n \in {"n_cal", "n_pro"} |-> [goal |-> Num(100000), max |-> Num(150000)]] }

PriorStorage ==
    {Stored("absent", EmptyMap), Stored("garbage", EmptyMap), Stored("scalar", EmptyMap)}
    \cup {JSONstringify(m) : m \in PriorMaps}

\* "ok": getItem and setItem work; "readonly": setItem throws (quota);
\* "denied": both throw
StorageModes == {"ok", "readonly", "denied"}

(***************************************************************************)
(* State of the page.                                                      *)
(***************************************************************************)
VARIABLES
    foodQuery, foods, foodsLoading, foodsError,              \* foods list
    foodsRequest,     \* the food searches: the timer armed, the queries awaited
    nutrients, nutrientsLoading, nutrientsError,             \* nutrients meta
    dietRows,                                                \* selected diet rows
    targets,                                                 \* goal/max per nutrient id
    shownNutrientIds,                                        \* columns shown
    foodNutrientsRows, foodNutrientsLoading, foodNutrientsError,
    selectedFoodId, gramsToAdd,                              \* add food UI
    phase,            \* "created" | "mounted": whether the mount effects ran
    nutrientsRequest, \* "none" | "pending" | "done": the one catalog load
    inflight,         \* amount fetches awaited, in issue order, each with the
                      \* cancelled flag its effect closure holds
    nextRowId,        \* ids handed out so far (crypto.randomUUID never repeats)
    localStorage, storageMode,
    sessionStart,     \* what the storage held when the page was constructed
    rowIdLimit,       \* the rows a behaviour may add
    awaitLimit,       \* the amount fetches a behaviour may await at a time
    searchLimit,      \* the food queries a behaviour may await at a time
    home,             \* the state of the key-based revision of the page (Home)
    totalsList,       \* the state of the totals-list revision of the page
    lastOp            \* the handler or callback that ran last, with its arguments

foodVars == <<foodQuery, foods, foodsLoading, foodsError, foodsRequest>>
nutrientVars == <<nutrients, nutrientsLoading, nutrientsError, nutrientsRequest>>
amountVars == <<foodNutrientsRows, foodNutrientsLoading, foodNutrientsError, inflight>>
addVars == <<selectedFoodId, gramsToAdd>>
storageVars == <<localStorage, storageMode, sessionStart>>

limitVars == <<rowIdLimit, awaitLimit, searchLimit>>

\* the state of the Diet Builder page
pageVars == <<foodVars, nutrientVars, amountVars, addVars, storageVars, dietRows,
              targets, shownNutrientIds, phase, nextRowId>>

vars == <<pageVars, limitVars, home, totalsList, lastOp>>

Op(name, id, key, val) == [op |-> name, id |-> id, key |-> key, val |-> val, field |-> ""]
\* a target edit also names its field
TargetOp(name, key, field, val) == [op |-> name, id |-> 0, key |-> key, val |-> val, field |-> field]

(***************************************************************************)
(* Inputs a user can give.                                                 *)
(***************************************************************************)
\* what can be typed into the "Grams" input of the add form
GramsToAddInputs == {"150", "", "0", "abc", "-5", "Infinity"}
\* what can be typed into the food search box
FoodQueries == {"", "ban"}
\* what can be handed to updateDietRowGrams as the new grams of a row
GramsInputs == {"abc", "Infinity", "-Infinity"}
\* the grams typed into the cell of a row of a filled sheet
EditGramsInputs == {"15", "-15", "150", ""}

\* Home: the grams typed into the add form and into the cell of a row
HomeGramsInputs == {"15", "-5"}
HomeGramsEdits == {"Infinity", "-Infinity"}
\* the totals-list revision: the grams typed into the add form
ListGramsInputs == {"15", "150", "-5"}
\* Home: the goal cells edited and the texts typed into them
HomeGoalKeys == {"protein"}
HomeGoalInputs == {"", "abc", "0.045", "-5"}

\* the texts typed into a GOAL or MAX cell in a session from construction on
SessionTargetInputs == {"", "abc", "167"}

\* what can be typed into a GOAL or MAX cell
TargetInputs == {"", "abc", "Infinity", "0.045", "167", "-5"}
TargetFields == {"goal", "max"}

(***************************************************************************)
(* Derived values (the useMemo blocks and the render helpers).             *)
(***************************************************************************)
\* the index of the last row of `rows` for (f, n), 0 if there is none
LastFact(rows, f, n) ==
    LET hits == {i \in 1..Len(rows) : rows[i].food_id = f /\ rows[i].nutrient_id = n}
    IN IF hits = {} THEN 0 ELSE CHOOSE i \in hits : \A j \in hits : j <= i

\* food_id -> nutrient_id -> amount_per_100g
amount100ByFoodAndNutrientOf(rows) ==
    [f \in {rows[i].food_id : i \in 1..Len(rows)} |->
        [n \in {rows[i].nutrient_id : i \in {j \in 1..Len(rows) : rows[j].food_id = f}} |->
            OrZero(Number(rows[LastFact(rows, f, n)].amount_per_100g))]]

amount100ByFoodAndNutrient == amount100ByFoodAndNutrientOf(foodNutrientsRows)

\* foodMap?.get(nid) ?? 0
Per100(m, f, nid) ==
    IF f \in DOMAIN m /\ nid \in DOMAIN m[f] THEN Coalesce(m[f][nid], Num(0)) ELSE Num(0)

\* a row with a value for every nutrient the cache has a fact of
ComputedRowOfCache(row, m, shown) ==
    LET grams == OrZero(Number(row.grams))
        cached == UNION {DOMAIN m[f] : f \in DOMAIN m}
    IN [id |-> row.id, food_id |-> row.food_id, name |-> row.name, grams |-> grams,
        values |-> [nid \in cached |-> Per100Times(Per100(m, row.food_id, nid), grams)]]

\* one row of computedDietRows
ComputedRow(row, m, shown) ==
    LET grams == OrZero(Number(row.grams))
    IN [id |-> row.id, food_id |-> row.food_id, name |-> row.name, grams |-> grams,
        values |-> [nid \in Range(shown) |-> Per100Times(Per100(m, row.food_id, nid), grams)]]

computedDietRowsOf(rows, m, shown) ==
    [i \in 1..Len(rows) |-> ComputedRow(rows[i], m, shown)]

computedDietRows ==
    computedDietRowsOf(dietRows, amount100ByFoodAndNutrient, shownNutrientIds)

\* totals[nid] += Number(row.values[nid] || 0), over the first i computed rows
RECURSIVE TotalUpTo(_, _, _)
TotalUpTo(crows, nid, i) ==
    IF i = 0 THEN Num(0)
    ELSE Add(TotalUpTo(crows, nid, i - 1), Number(OrZero(crows[i].values[nid])))

\* the totals loop stopping one row early
totalsByNutrientIdOfSkipsLast(crows, shown) ==
    [nid \in Range(shown) |-> TotalUpTo(crows, nid, IF Len(crows) > 1 THEN Len(crows) - 1 ELSE Len(crows))]

totalsByNutrientIdOf(crows, shown) ==
    [nid \in Range(shown) |-> TotalUpTo(crows, nid, Len(crows))]

totalsByNutrientId == totalsByNutrientIdOf(computedDietRows, shownNutrientIds)

\* targets?.[nutrientId]?.[field], undefined read as null
TargetField(map, nid, field) == IF nid \in DOMAIN map THEN map[nid][field] ELSE Null

\* totalsByNutrientId[nutrientId] || 0
TotalOrZero(nid) ==
    IF nid \in DOMAIN totalsByNutrientId THEN OrZero(totalsByNutrientId[nid]) ELSE Num(0)

\* the comparison made with >= in place of >
exceedsMaxOrEqual(nutrientId) ==
    LET max == TargetField(targets, nutrientId, "max")
    IN IF max.k = "null" THEN FALSE ELSE ~Gt(max, TotalOrZero(nutrientId))

exceedsMax(nutrientId) ==
    LET max == TargetField(targets, nutrientId, "max")
    IN IF max.k = "null" THEN FALSE ELSE Gt(TotalOrZero(nutrientId), max)

(***************************************************************************)
(* Startup helpers.                                                        *)
(***************************************************************************)
\* idByKey.get(k) for the last nutrient of the list with key k, "" if none
IdByKey(list, key) ==
    LET hits == {i \in 1..Len(list) : list[i].key = key}
    IN IF hits = {} THEN "" ELSE list[CHOOSE i \in hits : \A j \in hits : j <= i].id

RECURSIVE PreferredIds(_, _)
PreferredIds(list, i) ==
    IF i = 0 THEN <<>>
    ELSE IF IdByKey(list, PREFERRED_KEYS[i]) # ""
         THEN Append(PreferredIds(list, i - 1), IdByKey(list, PREFERRED_KEYS[i]))
         ELSE PreferredIds(list, i - 1)

\* the preferred nutrients in the order of the catalog
initialShownInCatalogOrder(list) ==
    LET preferred == SelectSeq(list, LAMBDA n : \E i \in 1..Len(PREFERRED_KEYS) :
                                                   PREFERRED_KEYS[i] = n.key)
        preferredIds == [i \in 1..Len(preferred) |-> preferred[i].id]
        fallback == [i \in 1..Len(Slice(list, FallbackCount)) |-> list[i].id]
    IN Slice(IF Len(preferredIds) > 0 THEN preferredIds ELSE fallback, MaxShown)

initialShown(list) ==
    LET preferredIds == PreferredIds(list, Len(PREFERRED_KEYS))
        fallback == [i \in 1..Len(Slice(list, FallbackCount)) |-> list[i].id]
    IN Slice(IF Len(preferredIds) > 0 THEN preferredIds ELSE fallback, MaxShown)

\* seeded[n.id] = { goal: safeNum(n.default_goal), max: safeNum(n.default_max) }
SeedTargets(list) ==
    [id \in {list[i].id : i \in 1..Len(list)} |->
        LET n == list[CHOOSE i \in 1..Len(list) :
                         list[i].id = id /\ \A j \in 1..Len(list) : list[j].id = id => j <= i]
        IN [goal |-> safeNum(n.default_goal), max |-> safeNum(n.default_max)]]

\* the targets the nutrient load sets: the stored map when getItem returns text
\* that parses to an object, the seeded map otherwise
TargetsAtLoad(stored, mode, list) ==
    IF mode # "denied" /\ stored.k = "json" THEN stored.v ELSE SeedTargets(list)

(***************************************************************************)
(* Effects.  React runs an effect after the commit that changed one of its *)
(* dependencies, its cleanup first; a handler and the effects its state    *)
(* updates trigger are one step.                                           *)
(***************************************************************************)
\* q without its i-th element: a settled query is awaited no more
RemoveAt(q, i) == [j \in 1..(Len(q) - 1) |-> IF j < i THEN q[j] ELSE q[j + 1]]

\* no timer armed and no query awaited
NoFoodSearch == [timer |-> <<>>, awaited |-> <<>>]

\* the effect of a new foodQuery: clearTimeout of the pending timer, a new timer
ArmTimer(timer, q) == <<q>>

\* localStorage.setItem(LS_KEY, JSON.stringify(targets)) inside try/catch
\* a write of the map the effect's closure saw one render earlier
PersistTargetsStale(map) ==
    /\ localStorage' = IF storageMode = "ok" THEN JSONstringify(targets) ELSE localStorage
    /\ UNCHANGED <<storageMode, sessionStart>>

\* localStorage.setItem(LS_KEY, JSON.stringify(targets)) in try/catch
PersistTargets(map) ==
    /\ localStorage' = IF storageMode = "ok" THEN JSONstringify(map) ELSE localStorage
    /\ UNCHANGED <<storageMode, sessionStart>>

\* a cleanup that cancels nothing
SupersededNever(fetches) == fetches

\* the cleanup of the amount effect: the closure of the fetch it issued gets
\* cancelled = true (the earlier closures have it already)
Superseded(fetches) ==
    [i \in 1..Len(fetches) |-> [fetches[i] EXCEPT !.cancelled = TRUE]]

\* the amount effect without its empty branch
AmountEffectAlwaysFetches(rows, shown) ==
    /\ Len(inflight) < awaitLimit
    /\ foodNutrientsLoading' = TRUE
    /\ foodNutrientsError' = ""
    /\ inflight' = Append(Superseded(inflight),
                          [foodIds |-> {rows[i].food_id : i \in 1..Len(rows)},
                           nutrientIds |-> Range(shown), cancelled |-> FALSE])
    /\ UNCHANGED foodNutrientsRows

\* the amount effect, run for the new dietRows and shownNutrientIds
AmountEffect(rows, shown) ==
    LET foodIds == {rows[i].food_id : i \in 1..Len(rows)}
        nutrientIds == Range(shown)
    IN IF foodIds = {} \/ nutrientIds = {}
       THEN /\ foodNutrientsRows' = <<>>
            /\ inflight' = Superseded(inflight)
            /\ UNCHANGED <<foodNutrientsLoading, foodNutrientsError>>
       ELSE /\ Len(inflight) < awaitLimit
            /\ foodNutrientsLoading' = TRUE
            /\ foodNutrientsError' = ""
            /\ inflight' = Append(Superseded(inflight),
                                  [foodIds |-> foodIds, nutrientIds |-> nutrientIds,
                                   cancelled |-> FALSE])
            /\ UNCHANGED foodNutrientsRows

(***************************************************************************)
(* Startup.                                                                *)
(***************************************************************************)
\* the first commit: the effects run in source order
Mount ==
    /\ phase = "created"
    /\ phase' = "mounted"
    /\ nutrientsLoading' = TRUE
    /\ nutrientsError' = ""
    /\ nutrientsRequest' = "pending"
    /\ PersistTargets(targets)
    /\ foodsRequest' = [timer |-> ArmTimer(foodsRequest.timer, foodQuery),
                        awaited |-> foodsRequest.awaited]
    /\ AmountEffect(dietRows, shownNutrientIds)
    /\ lastOp' = Op("Mount", 0, "", "")
    /\ UNCHANGED <<home, totalsList, limitVars, foodQuery, foods, foodsLoading, foodsError, addVars, nutrients,
                   dietRows, targets, shownNutrientIds, nextRowId>>

\* the nutrient query resolves with rows
NutrientsLoadedWith(list) ==
    /\ nutrientsRequest = "pending"
    /\ nutrientsRequest' = "done"
    /\ nutrients' = list
    /\ nutrientsLoading' = FALSE
    /\ UNCHANGED nutrientsError
    /\ shownNutrientIds' = initialShown(list)
    /\ targets' = TargetsAtLoad(localStorage, storageMode, list)
    /\ PersistTargets(targets')
    /\ AmountEffect(dietRows, shownNutrientIds')
    /\ lastOp' = Op("NutrientsLoaded", 0, "", "")
    /\ UNCHANGED <<home, totalsList, limitVars, foodVars, addVars, dietRows, phase, nextRowId>>

\* the nutrient query resolves with the rows of the nutrients table
NutrientsLoaded == NutrientsLoadedWith(NutrientsTable)

\* the nutrient query resolves with an error
NutrientsFailed ==
    /\ nutrientsRequest = "pending"
    /\ nutrientsRequest' = "done"
    /\ nutrientsError' = "error"
    /\ nutrients' = <<>>
    /\ nutrientsLoading' = FALSE
    /\ lastOp' = Op("NutrientsFailed", 0, "", "")
    /\ UNCHANGED <<home, totalsList, limitVars, foodVars, amountVars, addVars, storageVars, dietRows, targets,
                   shownNutrientIds, phase, nextRowId>>

(***************************************************************************)
(* The food search.  A change of foodQuery cancels the search of the query *)
(* before (its timer is cleared, its closure gets cancelled = true), so    *)
(* the only search that can write is the one of the current query.         *)
(***************************************************************************)
\* the cleanup of the food-search effect: cancelled = true in the closure
SupersededSearches(searches) ==
    [i \in 1..Len(searches) |-> [searches[i] EXCEPT !.cancelled = TRUE]]

\* onChange of the search box; the effect arms the 250 ms timer
TypeFoodQuery(q) ==
    /\ phase = "mounted"
    /\ q # foodQuery
    /\ foodQuery' = q
    /\ foodsRequest' = [timer |-> ArmTimer(foodsRequest.timer, q),
                        awaited |-> SupersededSearches(foodsRequest.awaited)]
    /\ lastOp' = Op("TypeFoodQuery", 0, q, "")
    /\ UNCHANGED <<home, totalsList, limitVars, foods, foodsLoading, foodsError, nutrientVars, amountVars, addVars,
                   storageVars, dietRows, targets, shownNutrientIds, phase, nextRowId>>

\* a timer fires: its query is sent
FoodSearchStarts ==
    /\ foodsRequest.timer # <<>>
    /\ Len(foodsRequest.awaited) < searchLimit
    /\ foodsRequest' = [timer |-> Tail(foodsRequest.timer),
                        awaited |-> Append(foodsRequest.awaited,
                                           [query |-> Head(foodsRequest.timer),
                                            cancelled |-> FALSE])]
    /\ foodsLoading' = TRUE
    /\ foodsError' = ""
    /\ lastOp' = Op("FoodSearchStarts", 0, Head(foodsRequest.timer), "")
    /\ UNCHANGED <<home, totalsList, limitVars, foodQuery, foods, nutrientVars, amountVars, addVars, storageVars,
                   dietRows, targets, shownNutrientIds, phase, nextRowId>>

\* a resolution that does not look at the cancelled flag
ApplyFoodsUnchecked(search, data) == data

\* what an answered search does with its rows: nothing when cancelled
ApplyFoods(search, data) == IF search.cancelled THEN foods ELSE data

\* the i-th awaited food query returns rows
FoodsLoaded(i) ==
    /\ i \in 1..Len(foodsRequest.awaited)
    /\ foodsRequest' = [foodsRequest EXCEPT !.awaited = RemoveAt(foodsRequest.awaited, i)]
    /\ foods' = ApplyFoods(foodsRequest.awaited[i], SearchFoods(foodsRequest.awaited[i].query))
    /\ foodsLoading' = IF foodsRequest.awaited[i].cancelled THEN foodsLoading ELSE FALSE
    /\ lastOp' = Op("FoodsLoaded", i, foodsRequest.awaited[i].query,
                  IF foodsRequest.awaited[i].cancelled THEN "superseded" ELSE "current")
    /\ UNCHANGED <<home, totalsList, limitVars, foodQuery, foodsError, nutrientVars, amountVars, addVars, storageVars,
                   dietRows, targets, shownNutrientIds, phase, nextRowId>>

\* what a failed search leaves in foods: setFoods([])
FoodsAfterError(search) == IF search.cancelled THEN foods ELSE <<>>

\* the i-th awaited food query returns an error
FoodsFailed(i) ==
    /\ i \in 1..Len(foodsRequest.awaited)
    /\ foodsRequest' = [foodsRequest EXCEPT !.awaited = RemoveAt(foodsRequest.awaited, i)]
    /\ foodsError' = IF foodsRequest.awaited[i].cancelled THEN foodsError ELSE "error"
    /\ foods' = FoodsAfterError(foodsRequest.awaited[i])
    /\ foodsLoading' = IF foodsRequest.awaited[i].cancelled THEN foodsLoading ELSE FALSE
    /\ lastOp' = Op("FoodsFailed", i, foodsRequest.awaited[i].query,
                  IF foodsRequest.awaited[i].cancelled THEN "superseded" ELSE "current")
    /\ UNCHANGED <<home, totalsList, limitVars, foodQuery, nutrientVars, amountVars, addVars, storageVars,
                   dietRows, targets, shownNutrientIds, phase, nextRowId>>

(***************************************************************************)
(* The add form.                                                           *)
(***************************************************************************)
\* onChange of the food select: "" ("Select...") or the id of a listed food
SelectFood(f) ==
    /\ phase = "mounted"
    /\ f \in {""} \cup {foods[i].id : i \in 1..Len(foods)}
    /\ selectedFoodId' = f
    /\ lastOp' = Op("SelectFood", 0, f, "")
    /\ UNCHANGED <<home, totalsList, limitVars, foodVars, nutrientVars, amountVars, storageVars, gramsToAdd, dietRows,
                   targets, shownNutrientIds, phase, nextRowId>>

\* onChange of the grams input
TypeGrams(text) ==
    /\ phase = "mounted"
    /\ gramsToAdd' = Str(text)
    /\ lastOp' = Op("TypeGrams", 0, "", text)
    /\ UNCHANGED <<home, totalsList, limitVars, foodVars, nutrientVars, amountVars, storageVars, selectedFoodId, dietRows,
                   targets, shownNutrientIds, phase, nextRowId>>

\* foods.find((f) => String(f.id) === String(selectedFoodId))?.name || "Unknown food"
FoodName(list, id) ==
    LET hits == {i \in 1..Len(list) : list[i].id = id}
    IN IF hits = {} THEN "Unknown food"
       ELSE list[CHOOSE i \in hits : \A j \in hits : i <= j].name

\* the guards without the test of the grams
AddAcceptedAnyGrams == selectedFoodId # ""

AddAccepted ==
    /\ selectedFoodId # ""
    /\ IsFinite(Number(gramsToAdd))
    /\ Gt(Number(gramsToAdd), Num(0))

\* the new row put before the rows there are
addFoodToDietOfPrepends(prev, id) ==
    <<[id |-> id, food_id |-> selectedFoodId, name |-> FoodName(foods, selectedFoodId),
       grams |-> Number(gramsToAdd)]>> \o prev

\* [...prev, { id, food_id: selectedFoodId, name, grams: g }]
addFoodToDietOf(prev, id) ==
    Append(prev, [id |-> id, food_id |-> selectedFoodId,
                  name |-> FoodName(foods, selectedFoodId), grams |-> Number(gramsToAdd)])

addFoodToDiet ==
    /\ phase = "mounted"
    /\ lastOp' = Op("addFoodToDiet", 0, selectedFoodId, gramsToAdd.s)
    /\ IF AddAccepted
       THEN /\ nextRowId < rowIdLimit
            /\ nextRowId' = nextRowId + 1
            /\ dietRows' = addFoodToDietOf(dietRows, nextRowId + 1)
            /\ selectedFoodId' = ""
            /\ gramsToAdd' = Num(100000)
            /\ AmountEffect(dietRows', shownNutrientIds)
       ELSE UNCHANGED <<amountVars, addVars, dietRows, nextRowId>>
    /\ UNCHANGED <<home, totalsList, limitVars, foodVars, nutrientVars, storageVars, targets, shownNutrientIds, phase>>

(***************************************************************************)
(* The diet sheet.                                                         *)
(***************************************************************************)
\* the filter with its test inverted
removeDietRowOfKeepsOnly(prev, rowId) == SelectSeq(prev, LAMBDA r : r.id = rowId)

\* prev.filter((r) => r.id !== rowId)
removeDietRowOf(prev, rowId) == SelectSeq(prev, LAMBDA r : r.id # rowId)

removeDietRow(rowId) ==
    /\ phase = "mounted"
    /\ dietRows' = removeDietRowOf(dietRows, rowId)
    /\ AmountEffect(dietRows', shownNutrientIds)
    /\ lastOp' = Op("removeDietRow", rowId, "", "")
    /\ UNCHANGED <<home, totalsList, limitVars, foodVars, nutrientVars, addVars, storageVars, targets, shownNutrientIds,
                   phase, nextRowId>>

\* the row picked by its position in place of its id
updateDietRowGramsOfAtIndex(prev, rowId, grams) ==
    [i \in 1..Len(prev) |->
        IF i = rowId THEN [prev[i] EXCEPT !.grams = Number(grams)] ELSE prev[i]]

\* prev.map((r) => (r.id === rowId ? { ...r, grams: g } : r))
updateDietRowGramsOf(prev, rowId, grams) ==
    [i \in 1..Len(prev) |->
        IF prev[i].id = rowId THEN [prev[i] EXCEPT !.grams = Number(grams)] ELSE prev[i]]

updateDietRowGrams(rowId, text) ==
    /\ phase = "mounted"
    /\ dietRows' = updateDietRowGramsOf(dietRows, rowId, Str(text))
    /\ AmountEffect(dietRows', shownNutrientIds)
    /\ lastOp' = Op("updateDietRowGrams", rowId, "", text)
    /\ UNCHANGED <<home, totalsList, limitVars, foodVars, nutrientVars, addVars, storageVars, targets, shownNutrientIds,
                   phase, nextRowId>>

\* the id appended whether it is shown or not
toggleColumnOfAppends(prev, nutrientId) == Append(prev, nutrientId)

\* prev.includes(id) ? prev.filter((x) => x !== id) : [...prev, id]
toggleColumnOf(prev, nutrientId) ==
    IF nutrientId \in Range(prev)
    THEN SelectSeq(prev, LAMBDA x : x # nutrientId)
    ELSE Append(prev, nutrientId)

\* a pill of the column chooser, rendered once the nutrients are loaded
toggleColumn(nutrientId) ==
    /\ phase = "mounted"
    /\ ~nutrientsLoading /\ nutrientsError = ""
    /\ nutrientId \in {nutrients[i].id : i \in 1..Len(nutrients)}
    /\ shownNutrientIds' = toggleColumnOf(shownNutrientIds, nutrientId)
    /\ AmountEffect(dietRows, shownNutrientIds')
    /\ lastOp' = Op("toggleColumn", 0, nutrientId, "")
    /\ UNCHANGED <<home, totalsList, limitVars, foodVars, nutrientVars, addVars, storageVars, dietRows, targets, phase,
                   nextRowId>>

(***************************************************************************)
(* The amount fetch resolves.                                              *)
(***************************************************************************)
\* the interest set: the distinct food ids of the rows and the shown columns
InterestFoodIds == {dietRows[i].food_id : i \in 1..Len(dietRows)}
InterestNutrientIds == Range(shownNutrientIds)

\* whether a fetch asked for the interest set of now ("fresh") or an older one
RequestAge(fetch) ==
    IF fetch.foodIds = InterestFoodIds /\ fetch.nutrientIds = InterestNutrientIds
    THEN "fresh" ELSE "stale"

\* a resolution that does not look at the cancelled flag
ApplyAmountRowsUnchecked(fetch, data) == data

\* what a resolved fetch does with its rows: nothing when cancelled
ApplyAmountRows(fetch, data) == IF fetch.cancelled THEN foodNutrientsRows ELSE data

\* the awaited query of the i-th fetch returns rows
AmountFetchResolves(i) ==
    /\ i \in 1..Len(inflight)
    /\ inflight' = RemoveAt(inflight, i)
    /\ foodNutrientsRows' =
           ApplyAmountRows(inflight[i],
                           SelectFoodNutrients(inflight[i].foodIds, inflight[i].nutrientIds))
    /\ foodNutrientsLoading' = IF inflight[i].cancelled THEN foodNutrientsLoading ELSE FALSE
    /\ UNCHANGED foodNutrientsError
    /\ lastOp' = Op("AmountFetchResolves", i, RequestAge(inflight[i]),
                  IF inflight[i].cancelled THEN "superseded" ELSE "current")
    /\ UNCHANGED <<home, totalsList, limitVars, foodVars, nutrientVars, addVars, storageVars, dietRows, targets,
                   shownNutrientIds, phase, nextRowId>>

\* what a failed fetch leaves in foodNutrientsRows: setFoodNutrientsRows([])
RowsAfterAmountError(fetch) == IF fetch.cancelled THEN foodNutrientsRows ELSE <<>>

\* the awaited query of the i-th fetch returns an error
AmountFetchFails(i) ==
    /\ i \in 1..Len(inflight)
    /\ inflight' = RemoveAt(inflight, i)
    /\ foodNutrientsRows' = RowsAfterAmountError(inflight[i])
    /\ foodNutrientsError' = IF inflight[i].cancelled THEN foodNutrientsError ELSE "error"
    /\ foodNutrientsLoading' = IF inflight[i].cancelled THEN foodNutrientsLoading ELSE FALSE
    /\ lastOp' = Op("AmountFetchFails", i, RequestAge(inflight[i]),
                  IF inflight[i].cancelled THEN "superseded" ELSE "current")
    /\ UNCHANGED <<home, totalsList, limitVars, foodVars, nutrientVars, addVars, storageVars, dietRows, targets,
                   shownNutrientIds, phase, nextRowId>>

(***************************************************************************)
(* Targets.                                                                *)
(***************************************************************************)
\* the entry rebuilt from the field alone
setTargetOfOnlyField(prev, nutrientId, field, value) ==
    [id \in DOMAIN prev \cup {nutrientId} |->
        IF id = nutrientId
        THEN [[goal |-> Null, max |-> Null] EXCEPT ![field] = safeNum(value)]
        ELSE prev[id]]

\* { ...prev, [nutrientId]: { goal: prev?.[nutrientId]?.goal ?? null,
\*                            max: prev?.[nutrientId]?.max ?? null, [field]: n } }
setTargetOf(prev, nutrientId, field, value) ==
    [id \in DOMAIN prev \cup {nutrientId} |->
        IF id = nutrientId
        THEN [[goal |-> TargetField(prev, nutrientId, "goal"),
               max |-> TargetField(prev, nutrientId, "max")] EXCEPT ![field] = safeNum(value)]
        ELSE prev[id]]

\* a GOAL or MAX cell, rendered for the shown columns when the sheet has rows
setTarget(nutrientId, field, text) ==
    /\ phase = "mounted"
    /\ Len(dietRows) > 0
    /\ nutrientId \in Range(shownNutrientIds)
    /\ targets' = setTargetOf(targets, nutrientId, field, Str(text))
    /\ PersistTargets(targets')
    /\ lastOp' = TargetOp("setTarget", nutrientId, field, text)
    /\ UNCHANGED <<home, totalsList, limitVars, foodVars, nutrientVars, amountVars, addVars, dietRows, shownNutrientIds,
                   phase, nextRowId>>

\* a reset that empties a map that holds entries, and seeds an empty one
resetTargetsToDefaultsOfToggling(list) ==
    IF DOMAIN targets = {} THEN SeedTargets(list) ELSE EmptyMap

resetTargetsToDefaultsOf(list) == SeedTargets(list)

resetTargetsToDefaults ==
    /\ phase = "mounted"
    /\ targets' = resetTargetsToDefaultsOf(nutrients)
    /\ PersistTargets(targets')
    \* id counts the resets made in a row, up to two
    /\ lastOp' = Op("resetTargetsToDefaults",
                    IF lastOp.op = "resetTargetsToDefaults" THEN 2 ELSE 1, "", "")
    /\ UNCHANGED <<home, totalsList, limitVars, foodVars, nutrientVars, amountVars, addVars, dietRows, shownNutrientIds,
                   phase, nextRowId>>

(***************************************************************************)
(* The key-based revision of the page (src/app/page.js, Home): its foods   *)
(* load and its nutrient metadata load.  foodsError "" stands for null.    *)
(***************************************************************************)
DEFAULT_VISIBLE_KEYS ==
    << "calories", "protein", "carbs", "fat", "fiber", "sugar", "omega_3", "omega_6",
       "cholesterol", "sodium" >>

SeqRange(q) == {q[i] : i \in 1..Len(q)}

\* the useState initial values of Home
HomeCreated ==
    [phase |-> "created",
     foods |-> <<>>, foodsLoading |-> TRUE, foodsError |-> "",
     foodsRequest |-> "none", nutrientsRequest |-> "none",
     nutrientsById |-> <<>>, nutrientIdByKey |-> <<>>,
     foodNutrients |-> <<>>, entries |-> <<>>,
     query |-> "", selectedFoodId |-> "", grams |-> Num(100000),
     inflight |-> <<>>,      \* effect C's queries awaited, with their cancelled flag
     nextEntryId |-> 0,      \* ids handed out so far (crypto.randomUUID never repeats)
     visibleKeys |-> DEFAULT_VISIBLE_KEYS,
     goalsByKey |-> [k \in SeqRange(DEFAULT_VISIBLE_KEYS) |-> ""]]

\* .from("food_nutrients_global").in("food_id", foodIds)
HomeSelectFoodNutrients(foodIds) ==
    SelectSeq(FoodNutrientsTable, LAMBDA row : row.food_id \in foodIds)

\* effect C, run for the new entries: its cleanup cancels the run before
HomeAmountEffect(h, entries) ==
    LET foodIds == {entries[i].food_id : i \in 1..Len(entries)}
    IN IF foodIds = {}
       THEN [h EXCEPT !.entries = entries, !.foodNutrients = <<>>,
                      !.inflight = Superseded(h.inflight)]
       ELSE [h EXCEPT !.entries = entries,
                      !.inflight = Append(Superseded(h.inflight),
                                          [foodIds |-> foodIds, cancelled |-> FALSE])]

\* effect C sends a query for these entries only while the session may await one
HomeEffectMayRun(entries) == entries = <<>> \/ Len(home.inflight) < awaitLimit

\* Home's first commit: effects A, B and C run; C finds no entry
HomeMount ==
    /\ home.phase = "created"
    /\ home' = [home EXCEPT !.phase = "mounted",
                            !.foodsLoading = TRUE, !.foodsError = "",
                            !.foodsRequest = "pending", !.nutrientsRequest = "pending",
                            !.foodNutrients = <<>>]
    /\ lastOp' = Op("HomeMount", 0, "", "")
    /\ UNCHANGED <<pageVars, totalsList, limitVars>>

\* effect A: the foods query resolves with rows
HomeFoodsLoaded ==
    /\ home.foodsRequest = "pending"
    /\ home' = [home EXCEPT !.foodsRequest = "done", !.foods = FoodsTable,
                            !.foodsLoading = FALSE]
    /\ lastOp' = Op("HomeFoodsLoaded", 0, "", "")
    /\ UNCHANGED <<pageVars, totalsList, limitVars>>

\* effect A: the foods query resolves with an error
HomeFoodsFailed ==
    /\ home.foodsRequest = "pending"
    /\ home' = [home EXCEPT !.foodsRequest = "done", !.foodsError = "error",
                            !.foods = <<>>, !.foodsLoading = FALSE]
    /\ lastOp' = Op("HomeFoodsFailed", 0, "", "")
    /\ UNCHANGED <<pageVars, totalsList, limitVars>>

\* byId[n.id] = { key, name: display_name || key }
ById(data) ==
    [id \in {data[i].id : i \in 1..Len(data)} |->
        LET n == data[CHOOSE i \in 1..Len(data) :
                         data[i].id = id /\ \A j \in 1..Len(data) : data[j].id = id => j <= i]
        IN [key |-> n.key, name |-> IF n.display_name # "" THEN n.display_name ELSE n.key]]

\* if (n.key) byKey[n.key] = n.id
ByKey(data) ==
    [k \in {data[i].key : i \in 1..Len(data)} \ {""} |-> IdByKey(data, k)]

\* !!byKey[k]
HasKey(byKey, k) == k \in DOMAIN byKey /\ byKey[k] # ""

\* an auto-fix that deletes no key
FixedGoalsKeepsAll(prev, byKey) ==
    LET added == {k \in SeqRange(DEFAULT_VISIBLE_KEYS) : HasKey(byKey, k)} \ DOMAIN prev
    IN [k \in DOMAIN prev \cup added |-> IF k \in DOMAIN prev THEN prev[k] ELSE ""]

\* the goals after the auto-fix: the keys the catalog lacks are deleted, the
\* default keys it has get an empty goal when they have none
FixedGoals(prev, byKey) ==
    LET kept == {k \in DOMAIN prev : HasKey(byKey, k)}
        added == {k \in SeqRange(DEFAULT_VISIBLE_KEYS) : HasKey(byKey, k)} \ kept
    IN [k \in kept \cup added |-> IF k \in kept THEN prev[k] ELSE ""]

\* effect B: the nutrients query resolves with rows
HomeNutrientMetaLoaded(data) ==
    /\ home.nutrientsRequest = "pending"
    /\ LET byKey == ByKey(data)
       IN home' = [home EXCEPT
                     !.nutrientsRequest = "done",
                     !.nutrientsById = ById(data),
                     !.nutrientIdByKey = byKey,
                     !.visibleKeys = SelectSeq(home.visibleKeys, LAMBDA k : HasKey(byKey, k)),
                     !.goalsByKey = FixedGoals(home.goalsByKey, byKey)]
    /\ lastOp' = Op("HomeNutrientMetaLoaded", 0, "", "")
    /\ UNCHANGED <<pageVars, totalsList, limitVars>>

\* effect B: the nutrients query resolves with an error, which is logged
HomeNutrientMetaFailed ==
    /\ home.nutrientsRequest = "pending"
    /\ home' = [home EXCEPT !.nutrientsRequest = "done",
                            !.nutrientsById = <<>>, !.nutrientIdByKey = <<>>]
    /\ lastOp' = Op("HomeNutrientMetaFailed", 0, "", "")
    /\ UNCHANGED <<pageVars, totalsList, limitVars>>

\* the add form of Home, rendered once the foods are loaded without an error
HomeFormShown == ~home.foodsLoading /\ home.foodsError = ""

\* onChange of Home's food select: "" or the id of a listed food
HomeSelectFood(f) ==
    /\ home.phase = "mounted" /\ HomeFormShown
    /\ f \in {""} \cup {home.foods[i].id : i \in 1..Len(home.foods)}
    /\ home' = [home EXCEPT !.selectedFoodId = f]
    /\ lastOp' = Op("HomeSelectFood", 0, f, "")
    /\ UNCHANGED <<pageVars, totalsList, limitVars>>

\* onChange of Home's grams input
HomeTypeGrams(text) ==
    /\ home.phase = "mounted" /\ HomeFormShown
    /\ home' = [home EXCEPT !.grams = Str(text)]
    /\ lastOp' = Op("HomeTypeGrams", 0, "", text)
    /\ UNCHANGED <<pageVars, totalsList, limitVars>>

\* foodNameById[selectedFoodId] || "Unknown food": the last food of that id
foodNameById(list, id) ==
    LET hits == {i \in 1..Len(list) : list[i].id = id}
    IN IF hits = {} THEN "Unknown food"
       ELSE list[CHOOSE i \in hits : \A j \in hits : j <= i].name

addEntryAccepted ==
    /\ home.selectedFoodId # ""
    /\ IsFinite(Number(home.grams))
    /\ Gt(Number(home.grams), Num(0))

addEntry ==
    /\ home.phase = "mounted" /\ HomeFormShown
    /\ lastOp' = Op("addEntry", 0, home.selectedFoodId, home.grams.s)
    /\ IF addEntryAccepted
       THEN /\ home.nextEntryId < rowIdLimit
            /\ HomeEffectMayRun(<<home.selectedFoodId>>)
            /\ home' = [HomeAmountEffect(home,
                            Append(home.entries,
                                   [id |-> home.nextEntryId + 1,
                                    food_id |-> home.selectedFoodId,
                                    name |-> foodNameById(home.foods, home.selectedFoodId),
                                    grams |-> Number(home.grams)]))
                          EXCEPT !.nextEntryId = home.nextEntryId + 1]
       ELSE UNCHANGED home
    /\ UNCHANGED <<pageVars, totalsList, limitVars>>

\* the filter of removeEntry keeping the first entry whatever its id
removeEntryOfKeepsFirst(prev, entryId) ==
    SelectSeq(prev, LAMBDA e : e.id # entryId \/ e = prev[1])

\* prev.filter((e) => e.id !== entryId)
removeEntryOf(prev, entryId) == SelectSeq(prev, LAMBDA e : e.id # entryId)

removeEntry(entryId) ==
    /\ home.phase = "mounted"
    /\ HomeEffectMayRun(removeEntryOf(home.entries, entryId))
    /\ home' = HomeAmountEffect(home, removeEntryOf(home.entries, entryId))
    /\ lastOp' = Op("removeEntry", entryId, "", "")
    /\ UNCHANGED <<pageVars, totalsList, limitVars>>

\* prev.map((e) => (e.id === entryId ? { ...e, grams: g } : e))
updateEntryGramsOf(prev, entryId, newGrams) ==
    [i \in 1..Len(prev) |->
        IF prev[i].id = entryId THEN [prev[i] EXCEPT !.grams = Number(newGrams)] ELSE prev[i]]

updateEntryGrams(entryId, text) ==
    /\ home.phase = "mounted"
    /\ HomeEffectMayRun(home.entries)
    /\ home' = HomeAmountEffect(home, updateEntryGramsOf(home.entries, entryId, Str(text)))
    /\ lastOp' = Op("updateEntryGrams", entryId, "", text)
    /\ UNCHANGED <<pageVars, totalsList, limitVars>>

\* { ...prev, [key]: value }
updateGoalOf(prev, key, value) ==
    [k \in DOMAIN prev \cup {key} |-> IF k = key THEN value ELSE prev[k]]

\* a cell of the goals row, rendered for the visible keys when there are rows
updateGoal(key, text) ==
    /\ home.phase = "mounted"
    /\ Len(home.entries) > 0
    /\ key \in SeqRange(home.visibleKeys)
    /\ home' = [home EXCEPT !.goalsByKey = updateGoalOf(home.goalsByKey, key, text)]
    /\ lastOp' = Op("updateGoal", 0, key, text)
    /\ UNCHANGED <<pageVars, totalsList, limitVars>>

\* the i-th query of effect C returns rows
HomeAmountsLoaded(i) ==
    /\ i \in 1..Len(home.inflight)
    /\ home' = [home EXCEPT
                  !.inflight = RemoveAt(home.inflight, i),
                  !.foodNutrients = IF home.inflight[i].cancelled THEN home.foodNutrients
                                    ELSE HomeSelectFoodNutrients(home.inflight[i].foodIds)]
    /\ lastOp' = Op("HomeAmountsLoaded", i, "",
                    IF home.inflight[i].cancelled THEN "superseded" ELSE "current")
    /\ UNCHANGED <<pageVars, totalsList, limitVars>>

\* the i-th query of effect C returns an error, which is logged
HomeAmountsFailed(i) ==
    /\ i \in 1..Len(home.inflight)
    /\ home' = [home EXCEPT
                  !.inflight = RemoveAt(home.inflight, i),
                  !.foodNutrients = IF home.inflight[i].cancelled THEN home.foodNutrients
                                    ELSE <<>>]
    /\ lastOp' = Op("HomeAmountsFailed", i, "",
                    IF home.inflight[i].cancelled THEN "superseded" ELSE "current")
    /\ UNCHANGED <<pageVars, totalsList, limitVars>>

\* food_id -> nutrient_id -> Number(row.amount_per_100g || 0), the last row winning
amount100ByFoodNutrientOf(rows) ==
    [f \in {rows[i].food_id : i \in 1..Len(rows)} |->
        [n \in {rows[i].nutrient_id : i \in {j \in 1..Len(rows) : rows[j].food_id = f}} |->
            Number(OrZero(rows[LastFact(rows, f, n)].amount_per_100g))]]

\* nid ? Number(foodMap[nid] || 0) : 0, with foodMap = map[food_id] || {}
Amount100(m, byKey, f, key) ==
    IF HasKey(byKey, key) /\ f \in DOMAIN m /\ byKey[key] \in DOMAIN m[f]
    THEN Number(OrZero(m[f][byKey[key]]))
    ELSE Num(0)

\* one row of spreadsheetRows
SpreadsheetRow(e, m, byKey, keys) ==
    LET gramsNum == Number(OrZero(e.grams))
    IN [id |-> e.id, food_id |-> e.food_id, name |-> e.name, grams |-> gramsNum,
        valuesByKey |-> [key \in SeqRange(keys) |->
                            Per100Times(Amount100(m, byKey, e.food_id, key), gramsNum)]]

spreadsheetRowsOf(entries, rows, byKey, keys) ==
    [i \in 1..Len(entries) |->
        SpreadsheetRow(entries[i], amount100ByFoodNutrientOf(rows), byKey, keys)]

spreadsheetRows ==
    spreadsheetRowsOf(home.entries, home.foodNutrients, home.nutrientIdByKey, home.visibleKeys)

\* totals[k] += Number(row.valuesByKey[k] || 0), over the first i rows
RECURSIVE TotalByKeyUpTo(_, _, _)
TotalByKeyUpTo(srows, key, i) ==
    IF i = 0 THEN Num(0)
    ELSE Add(TotalByKeyUpTo(srows, key, i - 1), Number(OrZero(srows[i].valuesByKey[key])))

totalsByKeyOf(srows, keys) ==
    [key \in SeqRange(keys) |-> TotalByKeyUpTo(srows, key, Len(srows))]

totalsByKey == totalsByKeyOf(spreadsheetRows, home.visibleKeys)

\* the test made with >= in place of >
isAboveGoalOrEqual(key, totalValue) ==
    IF key \notin DOMAIN home.goalsByKey \/ home.goalsByKey[key] = "" THEN FALSE
    ELSE IF ~IsFinite(NumberOfString(home.goalsByKey[key])) THEN FALSE
    ELSE ~Gt(NumberOfString(home.goalsByKey[key]), totalValue)

isAboveGoal(key, totalValue) ==
    IF key \notin DOMAIN home.goalsByKey \/ home.goalsByKey[key] = "" THEN FALSE
    ELSE IF ~IsFinite(NumberOfString(home.goalsByKey[key])) THEN FALSE
    ELSE Gt(totalValue, NumberOfString(home.goalsByKey[key]))

\* the total cell of a column: const v = totalsByKey[k] || 0; isAboveGoal(k, v)
TotalCellWarns(key) == isAboveGoal(key, OrZero(totalsByKey[key]))

(***************************************************************************)
(* The totals-list revision of the page (src/unnamed/part_001): entries    *)
(* are added and removed, and the totals of the nutrients are listed.      *)
(***************************************************************************)
\* the useState initial values
TotalsListCreated ==
    [phase |-> "created",
     foods |-> <<>>, foodsLoading |-> TRUE, foodsError |-> "", foodsRequest |-> "none",
     selectedFoodId |-> "", grams |-> Num(100000),
     entries |-> <<>>, nutrientsById |-> <<>>, foodNutrients |-> <<>>,
     inflight |-> <<>>,      \* effect 2's runs awaiting a query, with their cancelled flag
     nextEntryId |-> 0]

\* effect 2, run for the new entries: its cleanup cancels the run before
ListEffect(s, entries) ==
    LET foodIds == {entries[i].food_id : i \in 1..Len(entries)}
    IN IF foodIds = {}
       THEN [s EXCEPT !.entries = entries, !.foodNutrients = <<>>, !.nutrientsById = <<>>,
                      !.inflight = Superseded(s.inflight)]
       ELSE [s EXCEPT !.entries = entries,
                      !.inflight = Append(Superseded(s.inflight),
                                          [foodIds |-> foodIds, awaits |-> "amounts",
                                           cancelled |-> FALSE])]

ListEffectMayRun(entries) == entries = <<>> \/ Len(totalsList.inflight) < awaitLimit

\* the first commit: effects 1 and 2 run; effect 2 finds no entry
ListMount ==
    /\ totalsList.phase = "created"
    /\ totalsList' = [totalsList EXCEPT !.phase = "mounted", !.foodsLoading = TRUE,
                                        !.foodsError = "", !.foodsRequest = "pending",
                                        !.foodNutrients = <<>>, !.nutrientsById = <<>>]
    /\ lastOp' = Op("ListMount", 0, "", "")
    /\ UNCHANGED <<pageVars, home, limitVars>>

\* effect 1: the foods query resolves with rows
ListFoodsLoaded ==
    /\ totalsList.foodsRequest = "pending"
    /\ totalsList' = [totalsList EXCEPT !.foodsRequest = "done", !.foods = FoodsTable,
                                        !.foodsLoading = FALSE]
    /\ lastOp' = Op("ListFoodsLoaded", 0, "", "")
    /\ UNCHANGED <<pageVars, home, limitVars>>

\* effect 1: the foods query resolves with an error
ListFoodsFailed ==
    /\ totalsList.foodsRequest = "pending"
    /\ totalsList' = [totalsList EXCEPT !.foodsRequest = "done", !.foodsError = "error",
                                        !.foods = <<>>, !.foodsLoading = FALSE]
    /\ lastOp' = Op("ListFoodsFailed", 0, "", "")
    /\ UNCHANGED <<pageVars, home, limitVars>>

\* the add form, rendered once the foods are loaded without an error
ListFormShown == ~totalsList.foodsLoading /\ totalsList.foodsError = ""

ListSelectFood(f) ==
    /\ totalsList.phase = "mounted" /\ ListFormShown
    /\ f \in {""} \cup {totalsList.foods[i].id : i \in 1..Len(totalsList.foods)}
    /\ totalsList' = [totalsList EXCEPT !.selectedFoodId = f]
    /\ lastOp' = Op("ListSelectFood", 0, f, "")
    /\ UNCHANGED <<pageVars, home, limitVars>>

ListTypeGrams(text) ==
    /\ totalsList.phase = "mounted" /\ ListFormShown
    /\ totalsList' = [totalsList EXCEPT !.grams = Str(text)]
    /\ lastOp' = Op("ListTypeGrams", 0, "", text)
    /\ UNCHANGED <<pageVars, home, limitVars>>

\* addEntry of the totals-list revision
ListAddEntry ==
    /\ totalsList.phase = "mounted" /\ ListFormShown
    /\ lastOp' = Op("ListAddEntry", 0, totalsList.selectedFoodId, totalsList.grams.s)
    /\ IF /\ totalsList.selectedFoodId # ""
          /\ IsFinite(Number(totalsList.grams))
          /\ Gt(Number(totalsList.grams), Num(0))
       THEN /\ totalsList.nextEntryId < rowIdLimit
            /\ ListEffectMayRun(<<totalsList.selectedFoodId>>)
            /\ totalsList' =
                  [ListEffect(totalsList,
                       Append(totalsList.entries,
                              [id |-> totalsList.nextEntryId + 1,
                               food_id |-> totalsList.selectedFoodId,
                               name |-> foodNameById(totalsList.foods, totalsList.selectedFoodId),
                               grams |-> Number(totalsList.grams)]))
                     EXCEPT !.nextEntryId = totalsList.nextEntryId + 1]
       ELSE UNCHANGED totalsList
    /\ UNCHANGED <<pageVars, home, limitVars>>

\* removeEntry of the totals-list revision
ListRemoveEntry(entryId) ==
    /\ totalsList.phase = "mounted"
    /\ ListEffectMayRun(removeEntryOf(totalsList.entries, entryId))
    /\ totalsList' = ListEffect(totalsList, removeEntryOf(totalsList.entries, entryId))
    /\ lastOp' = Op("ListRemoveEntry", entryId, "", "")
    /\ UNCHANGED <<pageVars, home, limitVars>>

\* .from("nutrients").select("id,display_name,unit").in("id", nutrientIds)
SelectNutrientsById(nutrientIds) ==
    SelectSeq(NutrientsTable, LAMBDA n : n.id \in nutrientIds)

\* meta[n.id] = { name: n.display_name, unit: n.unit }
MetaOf(data) ==
    [id \in {data[i].id : i \in 1..Len(data)} |->
        [name |-> data[CHOOSE i \in 1..Len(data) :
                           data[i].id = id /\ \A j \in 1..Len(data) : data[j].id = id => j <= i]
                      .display_name]]

\* the amounts query of the i-th run returns rows: they are set and the run
\* goes on to the metadata query, unless there is no row
ListAmountsLoaded(i) ==
    /\ i \in 1..Len(totalsList.inflight)
    /\ totalsList.inflight[i].awaits = "amounts"
    /\ LET run == totalsList.inflight[i]
           rows == HomeSelectFoodNutrients(run.foodIds)
       IN totalsList' =
             IF run.cancelled
             THEN [totalsList EXCEPT !.inflight = RemoveAt(totalsList.inflight, i)]
             ELSE IF rows = <<>>
             THEN [totalsList EXCEPT !.inflight = RemoveAt(totalsList.inflight, i),
                                     !.foodNutrients = rows, !.nutrientsById = <<>>]
             ELSE [totalsList EXCEPT !.inflight[i].awaits = "meta", !.foodNutrients = rows]
    /\ lastOp' = Op("ListAmountsLoaded", i, "",
                    IF totalsList.inflight[i].cancelled THEN "superseded" ELSE "current")
    /\ UNCHANGED <<pageVars, home, limitVars>>

\* the amounts query of the i-th run returns an error, which is logged
ListAmountsFailed(i) ==
    /\ i \in 1..Len(totalsList.inflight)
    /\ totalsList.inflight[i].awaits = "amounts"
    /\ totalsList' =
          IF totalsList.inflight[i].cancelled
          THEN [totalsList EXCEPT !.inflight = RemoveAt(totalsList.inflight, i)]
          ELSE [totalsList EXCEPT !.inflight = RemoveAt(totalsList.inflight, i),
                                  !.foodNutrients = <<>>, !.nutrientsById = <<>>]
    /\ lastOp' = Op("ListAmountsFailed", i, "",
                    IF totalsList.inflight[i].cancelled THEN "superseded" ELSE "current")
    /\ UNCHANGED <<pageVars, home, limitVars>>

\* the metadata query of the i-th run returns rows
ListMetaLoaded(i) ==
    /\ i \in 1..Len(totalsList.inflight)
    /\ totalsList.inflight[i].awaits = "meta"
    /\ LET rows == HomeSelectFoodNutrients(totalsList.inflight[i].foodIds)
           nutrientIds == {rows[j].nutrient_id : j \in 1..Len(rows)}
       IN totalsList' =
             IF totalsList.inflight[i].cancelled
             THEN [totalsList EXCEPT !.inflight = RemoveAt(totalsList.inflight, i)]
             ELSE [totalsList EXCEPT !.inflight = RemoveAt(totalsList.inflight, i),
                                     !.nutrientsById = MetaOf(SelectNutrientsById(nutrientIds))]
    /\ lastOp' = Op("ListMetaLoaded", i, "",
                    IF totalsList.inflight[i].cancelled THEN "superseded" ELSE "current")
    /\ UNCHANGED <<pageVars, home, limitVars>>

\* the metadata query of the i-th run returns an error, which is logged
ListMetaFailed(i) ==
    /\ i \in 1..Len(totalsList.inflight)
    /\ totalsList.inflight[i].awaits = "meta"
    /\ totalsList' =
          IF totalsList.inflight[i].cancelled
          THEN [totalsList EXCEPT !.inflight = RemoveAt(totalsList.inflight, i)]
          ELSE [totalsList EXCEPT !.inflight = RemoveAt(totalsList.inflight, i),
                                  !.nutrientsById = <<>>]
    /\ lastOp' = Op("ListMetaFailed", i, "",
                    IF totalsList.inflight[i].cancelled THEN "superseded" ELSE "current")
    /\ UNCHANGED <<pageVars, home, limitVars>>

\* gramsByFood[e.food_id] = (gramsByFood[e.food_id] || 0) + Number(e.grams || 0),
\* over the first n entries
RECURSIVE GramsByFoodUpTo(_, _, _)
GramsByFoodUpTo(entries, f, n) ==
    IF n = 0 THEN Num(0)
    ELSE IF entries[n].food_id = f
         THEN Add(OrZero(GramsByFoodUpTo(entries, f, n - 1)), Number(OrZero(entries[n].grams)))
         ELSE GramsByFoodUpTo(entries, f, n - 1)

\* the map that keeps, for each food, the grams of its last entry only
gramsByFoodOfLastEntry(entries) ==
    [f \in {entries[i].food_id : i \in 1..Len(entries)} |->
        Number(OrZero(entries[CHOOSE i \in 1..Len(entries) :
                                 /\ entries[i].food_id = f
                                 /\ \A j \in 1..Len(entries) :
                                       entries[j].food_id = f => j <= i].grams))]

\* gramsByFood: the grams of each food of the ledger, summed over its entries
gramsByFoodOf(entries) ==
    [f \in {entries[i].food_id : i \in 1..Len(entries)} |->
        GramsByFoodUpTo(entries, f, Len(entries))]

\* the position of a nutrient among the keys of sumByNutrient, 0 if it is not one
SumIndex(sums, nutrientId) ==
    IF \E i \in 1..Len(sums) : sums[i].nutrient_id = nutrientId
    THEN CHOOSE i \in 1..Len(sums) : sums[i].nutrient_id = nutrientId
    ELSE 0

\* sumByNutrient after the first n amount rows, its keys in insertion order
RECURSIVE SumByNutrientUpTo(_, _, _)
SumByNutrientUpTo(gramsByFood, rows, n) ==
    IF n = 0 THEN <<>>
    ELSE LET before == SumByNutrientUpTo(gramsByFood, rows, n - 1)
             row == rows[n]
             g == IF row.food_id \in DOMAIN gramsByFood
                  THEN OrZero(gramsByFood[row.food_id]) ELSE Num(0)
             v100 == Number(OrZero(row.amount_per_100g))
             add == Per100Times(v100, g)
             at == SumIndex(before, row.nutrient_id)
         IN IF ~Truthy(g) THEN before
            ELSE IF at = 0
            THEN Append(before, [nutrient_id |-> row.nutrient_id, value |-> Add(Num(0), add)])
            ELSE [before EXCEPT ![at].value = Add(OrZero(before[at].value), add)]

sumByNutrientOf(entries, rows) ==
    SumByNutrientUpTo(gramsByFoodOf(entries), rows, Len(rows))

\* the names of the list in the order of localeCompare
NamesInOrder == <<"Calories", "Nutrient n_cal", "Nutrient n_pro", "Protein">>
NameRank(name) == CHOOSE i \in 1..Len(NamesInOrder) : NamesInOrder[i] = name

\* list.sort((a, b) => a.name.localeCompare(b.name)): a stable sort
RECURSIVE SortByName(_)
SortByName(list) ==
    IF list = <<>> THEN <<>>
    ELSE LET first == CHOOSE i \in 1..Len(list) :
                         \A j \in 1..Len(list) :
                            \/ NameRank(list[i].name) < NameRank(list[j].name)
                            \/ NameRank(list[i].name) = NameRank(list[j].name) /\ i <= j
         IN <<list[first]>> \o SortByName(RemoveAt(list, first))

\* totals: one element per key of sumByNutrient, named from the metadata
totalsOf(entries, rows, nutrientsById) ==
    LET sums == sumByNutrientOf(entries, rows)
    IN SortByName([i \in 1..Len(sums) |->
                      [nutrient_id |-> sums[i].nutrient_id,
                       name |-> IF sums[i].nutrient_id \in DOMAIN nutrientsById
                                THEN nutrientsById[sums[i].nutrient_id].name
                                ELSE "Nutrient " \o sums[i].nutrient_id,
                       total |-> sums[i].value]])

totals == totalsOf(totalsList.entries, totalsList.foodNutrients, totalsList.nutrientsById)

(***************************************************************************)
(* Specifications.                                                         *)
(***************************************************************************)
Limits(rowIds, awaited, searches) ==
    rowIdLimit = rowIds /\ awaitLimit = awaited /\ searchLimit = searches

\* the state after construction (the useState initial values), over what the
\* storage holds from earlier sessions
Created ==
    /\ foodQuery = ""
    /\ foods = <<>>
    /\ foodsLoading = FALSE
    /\ foodsError = ""
    /\ foodsRequest = NoFoodSearch
    /\ nutrients = <<>>
    /\ nutrientsLoading = TRUE
    /\ nutrientsError = ""
    /\ dietRows = <<>>
    /\ targets = EmptyMap
    /\ shownNutrientIds = <<>>
    /\ foodNutrientsRows = <<>>
    /\ foodNutrientsLoading = FALSE
    /\ foodNutrientsError = ""
    /\ selectedFoodId = ""
    /\ gramsToAdd = Num(100000)
    /\ phase = "created"
    /\ nutrientsRequest = "none"
    /\ inflight = <<>>
    /\ nextRowId = 0
    /\ localStorage \in PriorStorage
    /\ sessionStart = localStorage
    /\ storageMode \in StorageModes
    /\ home = HomeCreated
    /\ totalsList = TotalsListCreated
    /\ lastOp = Op("new", 0, "", "")

InitCreated == Created /\ Limits(0, 0, 1)

\* a session from construction on that may add one row
InitSession == Created /\ Limits(MaxFetchRowIds, MaxAwaited, MaxCatalogSearches)

\* the page once mounted, with the nutrients loaded and the first food search
\* (the empty query) answered, holding the rows `rows` with their amounts
\* fetched; `mode` and `stored` are the storage at construction
Loaded(rows, mode, stored) ==
    /\ foodQuery = ""
    /\ foods = FoodsTable
    /\ foodsLoading = FALSE
    /\ foodsError = ""
    /\ foodsRequest = NoFoodSearch
    /\ nutrients = NutrientsTable
    /\ nutrientsLoading = FALSE
    /\ nutrientsError = ""
    /\ dietRows = rows
    /\ storageMode = mode
    /\ sessionStart = stored
    \* the mount wrote the empty map before the load read the storage
    /\ targets = TargetsAtLoad(IF mode = "ok" THEN JSONstringify(EmptyMap) ELSE stored,
                               mode, NutrientsTable)
    /\ localStorage = IF mode = "ok" THEN JSONstringify(targets) ELSE stored
    /\ shownNutrientIds = initialShown(NutrientsTable)
    /\ foodNutrientsRows =
           SelectFoodNutrients({rows[i].food_id : i \in 1..Len(rows)},
                               Range(shownNutrientIds))
    /\ foodNutrientsLoading = FALSE
    /\ foodNutrientsError = ""
    /\ selectedFoodId = ""
    /\ gramsToAdd = Num(100000)
    /\ phase = "mounted"
    /\ nutrientsRequest = "done"
    /\ inflight = <<>>
    /\ nextRowId = Len(rows)
    /\ home = HomeCreated
    /\ totalsList = TotalsListCreated
    /\ lastOp = Op("loaded", 0, "", "")

InitLoaded ==
    Loaded(<<>>, "ok", Stored("absent", EmptyMap)) /\ Limits(MaxRowIds, MaxAwaited, 0)

InitFetch ==
    Loaded(<<>>, "ok", Stored("absent", EmptyMap)) /\ Limits(MaxFetchRowIds, MaxInflight, 0)

InitCatalog ==
    /\ Loaded(<<>>, "ok", Stored("absent", EmptyMap))
    /\ Limits(MaxFetchRowIds, MaxInflight, MaxCatalogSearches)

InitSearch ==
    Loaded(<<>>, "ok", Stored("absent", EmptyMap)) /\ Limits(0, 0, MaxSearches)

\* diet sheets a session reaches by adding foods and editing their grams
DietSamples ==
    { << [id |-> 1, food_id |-> "apple", name |-> "Apple", grams |-> Num(15000)] >>,
      << [id |-> 1, food_id |-> "apple", name |-> "Apple", grams |-> Num(150000)],
         [id |-> 2, food_id |-> "banana", name |-> "Banana", grams |-> Num(100000)] >>,
      << [id |-> 1, food_id |-> "apple", name |-> "Apple", grams |-> Infinity],
         [id |-> 2, food_id |-> "apple", name |-> "Apple", grams |-> NegInfinity] >> }

InitSheets ==
    /\ \E rows \in DietSamples :
          \/ Loaded(rows, "ok", Stored("absent", EmptyMap))
          \/ Loaded(rows, "denied", Stored("absent", EmptyMap))
          \/ Loaded(rows, "readonly", JSONstringify(PriorOverrides))
    /\ Limits(0, 0, 1)

\* the diet sheet: rows added with the default grams and edited to any grams
\* (the remove button and the grams cell exist for the rows rendered), columns
\* and the amount fetches
Next ==
    \/ \E f \in FoodIds \cup {""} : SelectFood(f)
    \/ addFoodToDiet
    \/ \E i \in 1..Len(dietRows) : removeDietRow(dietRows[i].id)
    \/ \E i \in 1..Len(dietRows), text \in GramsInputs :
          updateDietRowGrams(dietRows[i].id, text)
    \/ \E nutrientId \in NutrientIds : toggleColumn(nutrientId)
    \/ \E i \in 1..Len(inflight) : AmountFetchResolves(i)
    \/ \E i \in 1..Len(inflight) : AmountFetchFails(i)

Spec == InitLoaded /\ [][Next]_vars

\* the amount resolver: the interest set changes while fetches are in flight
NextFetch ==
    \/ \E f \in FoodIds \cup {""} : SelectFood(f)
    \/ addFoodToDiet
    \/ \E i \in 1..Len(dietRows) : removeDietRow(dietRows[i].id)
    \/ \E i \in 1..Len(dietRows) : updateDietRowGrams(dietRows[i].id, "150")
    \/ \E nutrientId \in NutrientIds : toggleColumn(nutrientId)
    \/ \E i \in 1..Len(inflight) : AmountFetchResolves(i)
    \/ \E i \in 1..Len(inflight) : AmountFetchFails(i)

SpecFetch == InitFetch /\ [][NextFetch]_vars

\* the amount resolver when every query is answered with rows, sooner or later
NextSettle ==
    \/ \E f \in FoodIds \cup {""} : SelectFood(f)
    \/ addFoodToDiet
    \/ \E i \in 1..Len(dietRows) : removeDietRow(dietRows[i].id)
    \/ \E i \in 1..Len(dietRows) : updateDietRowGrams(dietRows[i].id, "150")
    \/ \E nutrientId \in NutrientIds : toggleColumn(nutrientId)
    \/ \E i \in 1..Len(inflight) : AmountFetchResolves(i)

SpecSettle ==
    /\ InitFetch
    /\ [][NextSettle]_vars
    /\ WF_vars(\E i \in 1..Len(inflight) : AmountFetchResolves(i))

\* the food catalog and the add form: the search replaces the foods listed while
\* a food stays selected, and any text is typed into the grams input
NextCatalog ==
    \/ \E q \in FoodQueries : TypeFoodQuery(q)
    \/ FoodSearchStarts
    \/ \E i \in 1..Len(foodsRequest.awaited) : FoodsLoaded(i)
    \/ \E i \in 1..Len(foodsRequest.awaited) : FoodsFailed(i)
    \/ \E f \in FoodIds \cup {""} : SelectFood(f)
    \/ \E text \in GramsToAddInputs : TypeGrams(text)
    \/ addFoodToDiet
    \/ \E i \in 1..Len(inflight) : AmountFetchResolves(i)

SpecCatalog == InitCatalog /\ [][NextCatalog]_vars

\* the food search: queries typed while timers are armed and queries awaited
NextSearch ==
    \/ \E q \in FoodQueries : TypeFoodQuery(q)
    \/ FoodSearchStarts
    \/ \E i \in 1..Len(foodsRequest.awaited) : FoodsLoaded(i)
    \/ \E i \in 1..Len(foodsRequest.awaited) : FoodsFailed(i)
    \/ \E f \in FoodIds \cup {""} : SelectFood(f)

SpecSearch == InitSearch /\ [][NextSearch]_vars

\* startup: the mount, the nutrient load and what can be clicked meanwhile
NextStartup ==
    \/ Mount
    \/ NutrientsLoaded
    \/ NutrientsFailed
    \/ resetTargetsToDefaults
    \/ \E nutrientId \in NutrientIds : toggleColumn(nutrientId)

SpecStartup == InitCreated /\ [][NextStartup]_vars

\* startup over the catalogs the nutrients query can answer with
NextShown ==
    \/ Mount
    \/ \E list \in Catalogs : NutrientsLoadedWith(list)
    \/ NutrientsFailed
    \/ resetTargetsToDefaults

SpecShown == InitCreated /\ [][NextShown]_vars

\* the catalog loads of both revisions of the page, each succeeding or failing
NextLoads ==
    \/ Mount
    \/ NutrientsLoaded
    \/ NutrientsFailed
    \/ FoodSearchStarts
    \/ \E i \in 1..Len(foodsRequest.awaited) : FoodsLoaded(i)
    \/ \E i \in 1..Len(foodsRequest.awaited) : FoodsFailed(i)
    \/ HomeMount
    \/ HomeFoodsLoaded
    \/ HomeFoodsFailed
    \/ \E data \in Catalogs : HomeNutrientMetaLoaded(data)
    \/ HomeNutrientMetaFailed

SpecLoads == InitCreated /\ [][NextLoads]_vars

\* a session from construction on: the loads, one row added, the targets edited
NextSession ==
    \/ Mount
    \/ NutrientsLoaded
    \/ NutrientsFailed
    \/ FoodSearchStarts
    \/ \E i \in 1..Len(foodsRequest.awaited) : FoodsLoaded(i)
    \/ \E f \in FoodIds : SelectFood(f)
    \/ addFoodToDiet
    \/ \E i \in 1..Len(inflight) : AmountFetchResolves(i)
    \/ \E nutrientId \in NutrientIds, field \in TargetFields, text \in SessionTargetInputs :
          setTarget(nutrientId, field, text)
    \/ resetTargetsToDefaults

SpecSession == InitSession /\ [][NextSession]_vars

\* the targets of a loaded sheet
NextTargets ==
    \/ \E nutrientId \in NutrientIds, field \in TargetFields, text \in TargetInputs :
          setTarget(nutrientId, field, text)
    \/ resetTargetsToDefaults

SpecTargets == InitSheets /\ [][NextTargets]_vars

\* a filled sheet whose rows are edited to finite grams and removed
InitEdit ==
    /\ \E rows \in {s \in DietSamples : \A i \in 1..Len(s) : s[i].grams.k = "num"} :
          Loaded(rows, "ok", Stored("absent", EmptyMap))
    /\ Limits(0, MaxAwaited, 0)

NextEdit ==
    \/ \E i \in 1..Len(dietRows) : removeDietRow(dietRows[i].id)
    \/ \E i \in 1..Len(dietRows), text \in EditGramsInputs :
          updateDietRowGrams(dietRows[i].id, text)
    \/ \E nutrientId \in NutrientIds : toggleColumn(nutrientId)
    \/ \E i \in 1..Len(inflight) : AmountFetchResolves(i)

SpecEdit == InitEdit /\ [][NextEdit]_vars

\* what Home's nutrients query can answer with
HomeCatalogs == {NutrientsTable, <<NutrientsTable[2]>>, <<>>}

\* the key-based revision from construction on
InitHome ==
    /\ Created
    /\ storageMode = "ok"
    /\ localStorage = Stored("absent", EmptyMap)
    /\ Limits(MaxRowIds, MaxAwaited, 0)

NextHome ==
    \/ HomeMount
    \/ HomeFoodsLoaded
    \/ HomeFoodsFailed
    \/ \E data \in HomeCatalogs : HomeNutrientMetaLoaded(data)
    \/ HomeNutrientMetaFailed
    \/ \E f \in FoodIds : HomeSelectFood(f)
    \/ \E text \in HomeGramsInputs : HomeTypeGrams(text)
    \/ addEntry
    \/ \E i \in 1..Len(home.entries) : removeEntry(home.entries[i].id)
    \/ \E i \in 1..Len(home.entries), text \in HomeGramsEdits :
          updateEntryGrams(home.entries[i].id, text)
    \/ \E key \in HomeGoalKeys, text \in HomeGoalInputs : updateGoal(key, text)
    \/ \E i \in 1..Len(home.inflight) : HomeAmountsLoaded(i)
    \/ \E i \in 1..Len(home.inflight) : HomeAmountsFailed(i)

SpecHome == InitHome /\ [][NextHome]_vars

\* the add form used on a sheet that holds rows
InitAdd ==
    /\ \E rows \in DietSamples : Loaded(rows, "ok", Stored("absent", EmptyMap))
    /\ Limits(MaxRowIds + 1, MaxInflight, 0)

NextAdd ==
    \/ \E f \in FoodIds \cup {""} : SelectFood(f)
    \/ \E text \in GramsToAddInputs : TypeGrams(text)
    \/ addFoodToDiet
    \/ \E i \in 1..Len(inflight) : AmountFetchResolves(i)

SpecAdd == InitAdd /\ [][NextAdd]_vars

\* the totals-list revision: entries of one food or of two, added and removed
\* while the amount and metadata queries resolve, fail or are superseded
InitTotals ==
    /\ Created
    /\ storageMode = "ok"
    /\ localStorage = Stored("absent", EmptyMap)
    /\ Limits(MaxRowIds, MaxInflight, 0)

NextTotals ==
    \/ ListMount
    \/ ListFoodsLoaded
    \/ ListFoodsFailed
    \/ \E f \in FoodIds \cup {""} : ListSelectFood(f)
    \/ \E text \in ListGramsInputs : ListTypeGrams(text)
    \/ ListAddEntry
    \/ \E i \in 1..Len(totalsList.entries) : ListRemoveEntry(totalsList.entries[i].id)
    \/ \E i \in 1..Len(totalsList.inflight) : ListAmountsLoaded(i)
    \/ \E i \in 1..Len(totalsList.inflight) : ListAmountsFailed(i)
    \/ \E i \in 1..Len(totalsList.inflight) : ListMetaLoaded(i)
    \/ \E i \in 1..Len(totalsList.inflight) : ListMetaFailed(i)

SpecTotals == InitTotals /\ [][NextTotals]_vars

\* the ledgers of both revisions: entries added and removed, a remove button
\* clicked again before the row is gone included
InitLedgers ==
    /\ \E rows \in DietSamples : Loaded(rows, "ok", Stored("absent", EmptyMap))
    /\ Limits(MaxRowIds, MaxAwaited, 0)

NextLedgers ==
    \/ \E rowId \in 1..rowIdLimit : removeDietRow(rowId)
    \/ \E nutrientId \in NutrientIds : toggleColumn(nutrientId)
    \/ \E i \in 1..Len(inflight) : AmountFetchResolves(i)
    \/ HomeMount
    \/ HomeFoodsLoaded
    \/ \E f \in FoodIds : HomeSelectFood(f)
    \/ addEntry
    \/ \E entryId \in 1..rowIdLimit : removeEntry(entryId)
    \/ \E key \in HomeGoalKeys, text \in HomeGoalInputs : updateGoal(key, text)
    \/ \E i \in 1..Len(home.inflight) : HomeAmountsLoaded(i)

SpecLedgers == InitLedgers /\ [][NextLedgers]_vars

(***************************************************************************)
(* Claims.                                                                 *)
(***************************************************************************)
\* the cached amount fact of (f, n), 0 when the cache holds none
CachedAmount(f, n) ==
    LET facts == {r \in Range(foodNutrientsRows) : r.food_id = f /\ r.nutrient_id = n}
    IN IF facts = {} THEN Num(0) ELSE (CHOOSE r \in facts : TRUE).amount_per_100g

\* cachedAmount(row.food_id, nid) * row.grams / 100, as JavaScript computes it
LiteralTerm(row, nid) == Per100Times(CachedAmount(row.food_id, nid), row.grams)

\* the same with NaN grams read as 0 and a NaN product counted as 0
CoercedTerm(row, nid) ==
    LET g == IF IsNaN(row.grams) THEN Num(0) ELSE row.grams
        v == Per100Times(CachedAmount(row.food_id, nid), g)
    IN IF IsNaN(v) THEN Num(0) ELSE v

RECURSIVE SumOverRows(_, _, _)
SumOverRows(Term(_, _), nid, i) ==
    IF i = 0 THEN Num(0) ELSE Add(SumOverRows(Term, nid, i - 1), Term(dietRows[i], nid))

LiveFetch == \E i \in 1..Len(inflight) : ~inflight[i].cancelled

\* the rows the remote table holds for the interest set of now
InterestRows == SelectFoodNutrients(InterestFoodIds, InterestNutrientIds)

\* C2, what the cache ends up holding: once the latest fetch has resolved with
\* rows, the cache holds the rows of the current interest set, whenever the
\* superseded fetches resolve.
C2_CacheHoldsLatest ==
    (/\ ~LiveFetch
     /\ InterestFoodIds # {}
     /\ InterestNutrientIds # {}
     /\ foodNutrientsError = "")
    => foodNutrientsRows = InterestRows

\* C2, what is never written: the resolution of a superseded fetch, with rows or
\* with an error, leaves the cache, the loading flag and the error as they were.
C2_SupersededWritesNothing ==
    (/\ lastOp'.op \in {"AmountFetchResolves", "AmountFetchFails"}
     /\ lastOp'.val = "superseded")
    => UNCHANGED <<foodNutrientsRows, foodNutrientsLoading, foodNutrientsError>>

\* C2: superseded amount fetches never overwrite newer cache state: fetch A's
\* results are never written once B was issued, and the cache ends up holding B's.
C2_LastRequestWins == []C2_CacheHoldsLatest /\ [][C2_SupersededWritesNothing]_vars

\* fetch A, issued for an older interest set, resolves with rows after fetch B,
\* and the cache holds B's rows
C2_Witness ==
    /\ lastOp.op = "AmountFetchResolves"
    /\ lastOp.val = "superseded"
    /\ lastOp.key = "stale"
    /\ inflight = <<>>
    /\ foodNutrientsError = ""
    /\ foodNutrientsRows # <<>>
    /\ foodNutrientsRows = InterestRows

\* C3: when the current amount fetch fails, the error is surfaced and the cached
\* facts are left intact, so the totals are those of before the failure.
C3_CacheKeptOnFetchError ==
    [][(/\ lastOp'.op = "AmountFetchFails"
        /\ lastOp'.val = "current")
       => /\ foodNutrientsError' # ""
          /\ foodNutrientsRows' = foodNutrientsRows
          /\ totalsByNutrientId' = totalsByNutrientId]_vars

\* C10: the cached facts of a column that is not shown survive toggleColumn and
\* the resolution of the fetch it triggers, for the foods still in the ledger.
C10_RemovedColumnFactsKept ==
    [][lastOp'.op \in {"toggleColumn", "AmountFetchResolves"}
       => \A r \in Range(foodNutrientsRows) :
             (/\ r.nutrient_id \notin Range(shownNutrientIds')
              /\ r.food_id \in InterestFoodIds')
             => r \in Range(foodNutrientsRows')]_vars

\* the catalog record of the loaded nutrient `id`
LoadedNutrient(list, id) == list[CHOOSE i \in 1..Len(list) : list[i].id = id]

\* the nutrient load has just succeeded in a session whose storage works
LoadSucceeds == lastOp'.op = "NutrientsLoaded" /\ storageMode = "ok"

\* C4: when a prior session persisted a target map, the targets after the mount,
\* its effects and the successful nutrient load are that map.
C4_PersistedTargetsRehydrated ==
    [][(LoadSucceeds /\ sessionStart.k = "json") => targets' = sessionStart.v]_vars

\* C5: when the storage held no target map or a malformed one at startup, the
\* targets after the successful nutrient load have an entry for every loaded
\* nutrient, holding the nutrient's default_goal and default_max where it has one.
C5_DefaultsSeededWhenNothingStored ==
    [][(LoadSucceeds /\ sessionStart.k \in {"absent", "garbage", "scalar"})
       => \A i \in 1..Len(nutrients') :
             /\ nutrients'[i].id \in DOMAIN targets'
             /\ \A field \in TargetFields :
                   LET default == IF field = "goal" THEN nutrients'[i].default_goal
                                  ELSE nutrients'[i].default_max
                   IN default # Null
                      => TargetField(targets', nutrients'[i].id, field) = default]_vars

\* the warning that is true exactly when max is set and `total` > max
WarnsAbove(nid, total) ==
    /\ TargetField(targets, nid, "max") # Null
    /\ Gt(total, TargetField(targets, nid, "max"))

C7_ResetSeedsDefaultsOrNull ==
    [][lastOp'.op = "resetTargetsToDefaults"
       => /\ DOMAIN targets' = {nutrients[i].id : i \in 1..Len(nutrients)}
          /\ \A id \in DOMAIN targets' :
                /\ targets'[id].goal = LoadedNutrient(nutrients, id).default_goal
                /\ targets'[id].max = LoadedNutrient(nutrients, id).default_max]_vars

\* C8: setTarget stores a finite number or null in the field, never NaN; input
\* that is no finite number is stored as null, and no error state is raised.
C8_SetTargetStoresFiniteOrNull ==
    [][lastOp'.op = "setTarget"
       => /\ lastOp'.key \in DOMAIN targets'
          /\ \/ IsFinite(targets'[lastOp'.key][lastOp'.field])
             \/ targets'[lastOp'.key][lastOp'.field] = Null
          /\ lastOp'.val \in {"abc", "Infinity"}
                => targets'[lastOp'.key][lastOp'.field] = Null
          /\ UNCHANGED <<foodsError, nutrientsError, foodNutrientsError>>]_vars

\* unparsable text was typed into a field of a map that holds numbers, and the
\* field holds null
C8_Witness ==
    /\ lastOp.op = "setTarget"
    /\ lastOp.val = "abc"
    /\ targets[lastOp.key][lastOp.field] = Null
    /\ \E id \in DOMAIN targets, field \in TargetFields : IsFinite(targets[id][field])

\* the field of a target that setTarget was not asked to set
OtherField(field) == IF field = "goal" THEN "max" ELSE "goal"

\* C9: setTarget leaves the other field of the nutrient, and the targets of every
\* other nutrient, as they were.
C9_SetTargetIsPartial ==
    [][lastOp'.op = "setTarget"
       => /\ TargetField(targets', lastOp'.key, OtherField(lastOp'.field))
                = TargetField(targets, lastOp'.key, OtherField(lastOp'.field))
          /\ DOMAIN targets' = DOMAIN targets \cup {lastOp'.key}
          /\ \A id \in DOMAIN targets \ {lastOp'.key} : targets'[id] = targets[id]]_vars

\* a field was set on a nutrient whose other field holds a number, while another
\* nutrient holds a number too
C9_Witness ==
    /\ lastOp.op = "setTarget"
    /\ IsFinite(TargetField(targets, lastOp.key, OtherField(lastOp.field)))
    /\ \E id \in DOMAIN targets \ {lastOp.key}, field \in TargetFields :
          IsFinite(targets[id][field])

\* the ids of the foods listed now
ListedFoodIds == {foods[i].id : i \in 1..Len(foods)}

\* C11: an add request whose selected food is not in the current food list is
\* rejected and creates no entry, so every entry's food_id was that of a listed
\* food when the entry was created.
C11_UnlistedFoodRejected ==
    [][(lastOp'.op = "addFoodToDiet" /\ selectedFoodId \notin ListedFoodIds)
       => dietRows' = dietRows]_vars

\* the add form holds grams that are not a positive finite number
GramsRejected ==
    /\ gramsToAdd.k = "str"
    /\ gramsToAdd.s \in {"", "0", "abc", "-5", "Infinity"}

\* C16: an add request with no food selected, or with grams that are non-numeric,
\* non-finite, zero or negative, leaves the ledger, the selection and the grams
\* input as they were.
C16_InvalidAddChangesNothing ==
    [][(lastOp'.op = "addFoodToDiet" /\ (selectedFoodId = "" \/ GramsRejected))
       => UNCHANGED <<dietRows, selectedFoodId, gramsToAdd, nextRowId>>]_vars

\* an add request with a food selected and negative grams was made on a ledger
\* that holds an entry, and the form and the ledger are as before
C16_Witness ==
    /\ lastOp.op = "addFoodToDiet"
    /\ lastOp.key # ""
    /\ lastOp.val = "-5"
    /\ selectedFoodId = lastOp.key
    /\ gramsToAdd = Str("-5")
    /\ Len(dietRows) = 1

\* C12: at most one amount fetch is issued and unresolved per interest-set value
\* (the distinct food ids of the ledger and the shown nutrient ids).
C12_OneFetchPerInterestSet ==
    \A i, j \in 1..Len(inflight) :
        (/\ inflight[i].foodIds = inflight[j].foodIds
         /\ inflight[i].nutrientIds = inflight[j].nutrientIds)
        => i = j

\* the (food, nutrient) pairs the cache holds a fact of
CachedPairs == {<<r.food_id, r.nutrient_id>> : r \in Range(foodNutrientsRows)}

\* the ledger or the column selection is changed by the step
InterestChanges ==
    lastOp'.op \in {"addFoodToDiet", "removeDietRow", "updateDietRowGrams", "toggleColumn"}
    /\ (dietRows' # dietRows \/ shownNutrientIds' # shownNutrientIds)

\* C13: a change to a non-empty interest set issues exactly one fetch, scoped to
\* the ledger's food ids and the shown nutrient ids, which requests no pair that
\* is cached already.
C13_FetchRequestsOnlyMissingPairs ==
    [][(InterestChanges /\ InterestFoodIds' # {} /\ InterestNutrientIds' # {})
       => /\ Len(inflight') = Len(inflight) + 1
          /\ inflight'[Len(inflight')].foodIds = InterestFoodIds'
          /\ inflight'[Len(inflight')].nutrientIds = InterestNutrientIds'
          /\ (inflight'[Len(inflight')].foodIds \X inflight'[Len(inflight')].nutrientIds)
                \cap CachedPairs = {}]_vars

\* C14: when a change leaves the interest set empty (no diet entries, or no shown
\* columns), the amount cache is cleared and no fetch is issued: the fetches
\* awaited are those of before, all superseded.
C14_EmptyInterestClearsCache ==
    [][(InterestChanges /\ (InterestFoodIds' = {} \/ InterestNutrientIds' = {}))
       => /\ foodNutrientsRows' = <<>>
          /\ Len(inflight') = Len(inflight)
          /\ \A i \in 1..Len(inflight') :
                /\ inflight'[i].cancelled
                /\ inflight'[i].foodIds = inflight[i].foodIds
                /\ inflight'[i].nutrientIds = inflight[i].nutrientIds]_vars

\* the last column was hidden while the ledger holds an entry and a fetch was
\* awaited: the cache is empty and the fetch superseded
C14_Witness ==
    /\ lastOp.op = "toggleColumn"
    /\ shownNutrientIds = <<>>
    /\ dietRows # <<>>
    /\ foodNutrientsRows = <<>>
    /\ inflight # <<>>
    /\ \A i \in 1..Len(inflight) : inflight[i].cancelled

\* the cache holds exactly the remote facts of the current interest set
CacheConsistent == foodNutrientsRows = InterestRows

\* a step that leaves the ledger and the column selection alone
NoMutation ==
    lastOp'.op \notin {"addFoodToDiet", "removeDietRow", "updateDietRowGrams", "toggleColumn"}

\* C15: when every fetch issued is answered with rows, then once the user stops
\* changing the ledger and the column selection, the cache eventually holds
\* exactly the remote facts of distinct(food ids of the ledger) x shown nutrient
\* ids, and stays so.
C15_CacheSettlesOnInterestSet == <>[][NoMutation]_vars => <>[]CacheConsistent

\* the fetch of the current interest set has been answered after a grams edit and
\* nothing is awaited: the cache holds the facts of the two shown columns
C15_Witness ==
    /\ lastOp.op = "AmountFetchResolves"
    /\ lastOp.val = "current"
    /\ inflight = <<>>
    /\ \E i \in 1..Len(dietRows) : dietRows[i].grams = Num(150000)
    /\ Len(shownNutrientIds) = 2
    /\ CacheConsistent
    /\ Len(foodNutrientsRows) = 2

\* C17: a resetTargetsToDefaults that follows a resetTargetsToDefaults, the
\* nutrients being the same, leaves the target map of the first.
C17_ResetIsIdempotent ==
    [][(/\ lastOp.op = "resetTargetsToDefaults"
        /\ lastOp'.op = "resetTargetsToDefaults"
        /\ nutrients' = nutrients)
       => targets' = targets]_vars

\* two resets were made in a row on a sheet that started with the overrides of
\* an earlier session, and the map holds the seeded targets of the loaded nutrients
C17_Witness ==
    /\ lastOp.op = "resetTargetsToDefaults"
    /\ lastOp.id = 2
    /\ nutrients # <<>>
    /\ sessionStart.k = "json"
    /\ targets = SeedTargets(nutrients)
    /\ targets # sessionStart.v

\* the rows and the totals are empty and 0 for the cache `cache`
EmptySheetFor(cache) ==
    /\ computedDietRowsOf(dietRows, amount100ByFoodAndNutrientOf(cache), shownNutrientIds) = <<>>
    /\ \A nid \in Range(shownNutrientIds) :
          totalsByNutrientIdOf(
              computedDietRowsOf(dietRows, amount100ByFoodAndNutrientOf(cache),
                                 shownNutrientIds),
              shownNutrientIds)[nid] = Num(0)

\* C18, the state: with an empty ledger the row set is empty and every shown
\* column total is 0, for the cache of the state and for a cache that holds
\* every remote fact.
C18_EmptyLedgerEmptySheet ==
    dietRows = <<>> => EmptySheetFor(foodNutrientsRows) /\ EmptySheetFor(FoodNutrientsTable)

\* C18, the step: removing the only entry of a ledger leaves the row set empty
\* and every shown column total 0.
C18_RemovingLastEntryEmptiesSheet ==
    (lastOp'.op = "removeDietRow" /\ Len(dietRows) = 1 /\ dietRows[1].id = lastOp'.id)
    => /\ computedDietRows' = <<>>
       /\ \A nid \in Range(shownNutrientIds') : totalsByNutrientId'[nid] = Num(0)

\* C18: whenever the ledger is empty the row set is empty and every shown column
\* total is 0, whatever the cache holds; so it is after all entries are removed,
\* the first time and after entries were added again.
C18_EmptyLedgerZeroTotals ==
    []C18_EmptyLedgerEmptySheet /\ [][C18_RemovingLastEntryEmptiesSheet]_vars

\* the second entry ever added was removed, the ledger is empty and columns are
\* shown
C18_Witness ==
    /\ lastOp.op = "removeDietRow"
    /\ lastOp.id = 2
    /\ nextRowId = 2
    /\ dietRows = <<>>
    /\ shownNutrientIds # <<>>

\* C19, the state: no nutrient id is shown twice, and toggling a nutrient twice
\* gives the selection of before as a set.
C19_SelectionIsASet ==
    /\ \A i, j \in 1..Len(shownNutrientIds) :
          shownNutrientIds[i] = shownNutrientIds[j] => i = j
    /\ \A n \in NutrientIds :
          Range(toggleColumnOf(toggleColumnOf(shownNutrientIds, n), n))
              = Range(shownNutrientIds)

\* C19, the step: toggleColumn(n) adds n when it is not shown and removes it when
\* it is.
C19_ToggleAddsOrRemoves ==
    lastOp'.op = "toggleColumn"
    => Range(shownNutrientIds') =
          IF lastOp'.key \in Range(shownNutrientIds)
          THEN Range(shownNutrientIds) \ {lastOp'.key}
          ELSE Range(shownNutrientIds) \cup {lastOp'.key}

\* C19: toggleColumn is a symmetric add/remove, twice it gives back the same
\* selection set, and the selection never holds a nutrient id twice.
C19_ToggleIsSymmetric == []C19_SelectionIsASet /\ [][C19_ToggleAddsOrRemoves]_vars

\* a column was hidden and shown again: the selection is that of the start as a
\* set, in another order
C19_Witness ==
    /\ lastOp.op = "toggleColumn"
    /\ lastOp.key \in Range(shownNutrientIds)
    /\ Range(shownNutrientIds) = Range(initialShown(nutrients))
    /\ shownNutrientIds # initialShown(nutrients)

\* C20: the nutrients that have a value in every row, and the nutrients that have
\* a column total, are exactly the columns shown, in every state.
C20_ColumnsAreTheSelection ==
    /\ \A i \in 1..Len(computedDietRows) :
          DOMAIN computedDietRows[i].values = Range(shownNutrientIds)
    /\ DOMAIN totalsByNutrientId = Range(shownNutrientIds)

\* a column was hidden on a sheet with an entry; the fetch it issued is awaited
\* and the cache still holds a fact of the column, which has no value and no total
C20_Witness ==
    /\ lastOp.op = "toggleColumn"
    /\ lastOp.key \notin Range(shownNutrientIds)
    /\ dietRows # <<>>
    /\ \E i \in 1..Len(inflight) : ~inflight[i].cancelled
    /\ \E r \in Range(foodNutrientsRows) : r.nutrient_id = lastOp.key
    /\ lastOp.key \notin DOMAIN totalsByNutrientId
    /\ \A i \in 1..Len(computedDietRows) : lastOp.key \notin DOMAIN computedDietRows[i].values

\* a food query that is awaited and not superseded
LiveSearches == {i \in 1..Len(foodsRequest.awaited) : ~foodsRequest.awaited[i].cancelled}

\* C22, the state: at most one search is pending, the one of the latest query,
\* either as a timer or as a query that is not superseded; and when none is
\* pending and no error is shown, the food list is the answer to the latest query.
C22_OnlyLatestQueryPending ==
    /\ Len(foodsRequest.timer) <= 1
    /\ \A i \in 1..Len(foodsRequest.timer) : foodsRequest.timer[i] = foodQuery
    /\ \A i, j \in LiveSearches : i = j
    /\ \A i \in LiveSearches : foodsRequest.awaited[i].query = foodQuery
    /\ (foodsRequest.timer = <<>> /\ LiveSearches = {} /\ foodsError = "")
          => foods = SearchFoods(foodQuery)

\* C22, the step: a keystroke clears the pending timer and arms one for the new
\* query, and supersedes the queries in flight; the answer to a superseded query
\* writes nothing, the answer to the query that is not superseded writes its rows.
C22_SupersededSearchWritesNothing ==
    /\ lastOp'.op = "TypeFoodQuery"
          => /\ foodsRequest'.timer = <<lastOp'.key>>
             /\ Len(foodsRequest'.awaited) = Len(foodsRequest.awaited)
             /\ \A i \in 1..Len(foodsRequest'.awaited) : foodsRequest'.awaited[i].cancelled
             /\ UNCHANGED <<foods, foodsLoading, foodsError>>
    /\ (lastOp'.op \in {"FoodsLoaded", "FoodsFailed"} /\ lastOp'.val = "superseded")
          => UNCHANGED <<foods, foodsLoading, foodsError>>
    /\ (lastOp'.op = "FoodsLoaded" /\ lastOp'.val = "current")
          => foods' = SearchFoods(foodQuery)

\* C22: the food search is debounced and the last query wins: the food list only
\* ever holds the answer to the most recent query that has been answered.
C22_LastQueryWins ==
    []C22_OnlyLatestQueryPending /\ [][C22_SupersededSearchWritesNothing]_vars

\* the answer to an older query arrived after the answer to the latest one, and
\* the list is the latest one's, which differs
C22_Witness ==
    /\ lastOp.op = "FoodsLoaded"
    /\ lastOp.val = "superseded"
    /\ lastOp.key # foodQuery
    /\ foodsRequest = NoFoodSearch
    /\ foods = SearchFoods(foodQuery)
    /\ foods # SearchFoods(lastOp.key)

\* the preferred keys a catalog has, in the order of PREFERRED_KEYS
PresentPreferredKeys(list) ==
    SelectSeq(PREFERRED_KEYS, LAMBDA k : \E i \in 1..Len(list) : list[i].key = k)

\* the id of the catalog's nutrient of a key
IdOfKey(list, k) == list[CHOOSE i \in 1..Len(list) : list[i].key = k].id

\* the columns the spec asks for after a load
ExpectedShown(list) ==
    LET present == PresentPreferredKeys(list)
        chosen == IF present # <<>>
                    THEN [i \in 1..Len(present) |-> IdOfKey(list, present[i])]
                    ELSE [i \in 1..(IF Len(list) < 10 THEN Len(list) ELSE 10) |-> list[i].id]
    IN [i \in 1..(IF Len(chosen) < 12 THEN Len(chosen) ELSE 12) |-> chosen[i]]

\* C21: after a successful nutrient load the columns are the ids of the preferred
\* keys the catalog has, in preferred-list order; the first 10 nutrients of the
\* catalog when it has no preferred key; never more than 12.
C21_InitialColumnsArePreferredOrFirstTen ==
    [][lastOp'.op = "NutrientsLoaded"
          => /\ shownNutrientIds' = ExpectedShown(nutrients')
             /\ Len(shownNutrientIds') <= 12]_vars

\* a catalog with more preferred keys than columns, listed in another order than
\* the preferred one, was loaded
C21_Witness ==
    /\ lastOp.op = "NutrientsLoaded"
    /\ Len(PresentPreferredKeys(nutrients)) > 12
    /\ Len(shownNutrientIds) = 12
    /\ shownNutrientIds[1] = "n_calories"
    /\ nutrients[1].id # "n_calories"

\* C23: when the nutrient catalog load or a food catalog fetch fails, a visible
\* error state is set and the list the load fills is empty, in the Diet Builder
\* page and in the key-based revision.
C23_FailedLoadShowsError ==
    [][/\ lastOp'.op = "NutrientsFailed" => nutrientsError' # "" /\ nutrients' = <<>>
       /\ (lastOp'.op = "FoodsFailed" /\ lastOp'.val = "current")
             => foodsError' # "" /\ foods' = <<>>
       /\ lastOp'.op = "HomeFoodsFailed" => home'.foodsError # "" /\ home'.foods = <<>>
       /\ lastOp'.op = "HomeNutrientMetaFailed"
             => /\ home' # [home EXCEPT !.nutrientsRequest = "done"]
                /\ home'.nutrientsById = <<>>
                /\ home'.nutrientIdByKey = <<>>]_vars

LedgerOps ==
    {[op |-> "remove", text |-> ""]} \cup {[op |-> "update", text |-> x] : x \in EditGramsInputs}

ApplyLedgerOp(rows, id, o) ==
    IF o.op = "remove" THEN removeDietRowOf(rows, id)
    ELSE updateDietRowGramsOf(rows, id, Str(o.text))

\* the cache once the amount effect ran for a ledger: emptied with the interest set
CacheAfterEffect(rows, cache) ==
    IF rows = <<>> \/ shownNutrientIds = <<>> THEN <<>> ELSE cache

\* the column totals of a ledger over a cache
TotalsOver(rows, cache) ==
    totalsByNutrientIdOf(computedDietRowsOf(rows, amount100ByFoodAndNutrientOf(cache),
                                            shownNutrientIds),
                         shownNutrientIds)

\* the ledger and the totals after o1 on entry a, then o2 on entry b
AfterBoth(a, o1, b, o2) ==
    LET first == ApplyLedgerOp(dietRows, a, o1)
        second == ApplyLedgerOp(first, b, o2)
        cache == CacheAfterEffect(second, CacheAfterEffect(first, foodNutrientsRows))
    IN [ledger |-> second, totals |-> TotalsOver(second, cache)]

\* C25: the mutations of two different entries commute: updateDietRowGrams
\* and/or removeDietRow applied to them in either order give the same ledger and
\* the same column totals.
C25_EntryMutationsCommute ==
    \A i, j \in 1..Len(dietRows) :
        dietRows[i].id # dietRows[j].id
           => \A o1, o2 \in LedgerOps :
                 AfterBoth(dietRows[i].id, o1, dietRows[j].id, o2)
                    = AfterBoth(dietRows[j].id, o2, dietRows[i].id, o1)

\* a sheet of two entries, one of them edited, with amounts cached, on which a
\* removal of the one and an edit of the other change the ledger and the totals
C25_Witness ==
    /\ lastOp.op = "updateDietRowGrams"
    /\ Len(dietRows) = 2
    /\ dietRows[1].id # dietRows[2].id
    /\ foodNutrientsRows # <<>>
    /\ shownNutrientIds # <<>>
    /\ LET after == AfterBoth(dietRows[1].id, [op |-> "remove", text |-> ""],
                              dietRows[2].id, [op |-> "update", text |-> "15"])
       IN /\ Len(after.ledger) = 1
          /\ after.ledger[1] # dietRows[2]
          /\ after.totals # TotalsOver(dietRows, foodNutrientsRows)

\* n rounded to 2 decimal digits, ties away from zero; null and NaN give 0
RoundHalfAwayFromZero(n) ==
    IF n.k = "null" \/ n.k = "nan" THEN Num(0)
    ELSE IF n.k = "inf" THEN n
    ELSE IF n.v >= 0 THEN Num(((n.v + 5) \div 10) * 10)
    ELSE Num(0 - (((0 - n.v) + 5) \div 10) * 10)

\* C26: the row values and the totals shown are the full-precision values
\* rounded to 2 decimal digits with ties rounded half away from zero, negative
\* values included; null or NaN shows as 0.
C26_DisplayRoundsHalfAwayFromZero ==
    /\ \A i \in 1..Len(computedDietRows) : \A nid \in Range(shownNutrientIds) :
          round(computedDietRows[i].values[nid])
             = RoundHalfAwayFromZero(computedDietRows[i].values[nid])
    /\ \A nid \in Range(shownNutrientIds) :
          round(totalsByNutrientId[nid]) = RoundHalfAwayFromZero(totalsByNutrientId[nid])

\* C27: an entry whose grams was edited to a non-finite value is aggregated with
\* grams 0: its row values are all 0 and the column totals are those of the
\* sheet without it.
C27_NonFiniteGramsCountAsZero ==
    \A i \in 1..Len(dietRows) :
        ~IsFinite(dietRows[i].grams)
           => /\ computedDietRows[i].grams = Num(0)
              /\ \A nid \in Range(shownNutrientIds) :
                    OrZero(computedDietRows[i].values[nid]) = Num(0)
              /\ totalsByNutrientId
                    = TotalsOver(removeDietRowOf(dietRows, dietRows[i].id), foodNutrientsRows)

\* C28: the amount-loading flag is true only while a fetch that can still be
\* applied is awaited; once every fetch issued has resolved, or the interest set
\* is empty, the flag is false.
C28_LoadingOnlyWhileFetchAwaited ==
    /\ foodNutrientsLoading => LiveFetch
    /\ (inflight = <<>> \/ InterestFoodIds = {} \/ InterestNutrientIds = {})
          => ~foodNutrientsLoading

\* C29: setTarget with an empty text leaves the field null, so a nutrient whose
\* max was cleared does not warn.
C29_ClearedTargetIsNull ==
    [][(lastOp'.op = "setTarget" /\ lastOp'.val = "")
          => /\ TargetField(targets', lastOp'.key, lastOp'.field) = Null
             /\ lastOp'.field = "max" => ~(exceedsMax(lastOp.key))']_vars

\* a value that is not below 0
NotNegative(x) == (x.k = "num" /\ x.v >= 0) \/ x = Infinity

\* C30: with amounts that are not negative, every row value and every column
\* total is at least 0 in every reachable state; an entry whose grams is zero,
\* negative or non-finite does not lower a column total.
C30_ValuesAndTotalsNotNegative ==
    /\ \A i \in 1..Len(dietRows) : \A nid \in Range(shownNutrientIds) :
          NotNegative(computedDietRows[i].values[nid])
    /\ \A nid \in Range(shownNutrientIds) : NotNegative(totalsByNutrientId[nid])
    /\ \A i \in 1..Len(dietRows) :
          ~(IsFinite(dietRows[i].grams) /\ dietRows[i].grams.v > 0)
             => \A nid \in Range(shownNutrientIds) :
                   ~Gt(TotalsOver(removeDietRowOf(dietRows, dietRows[i].id),
                                  foodNutrientsRows)[nid],
                       totalsByNutrientId[nid])

\* the positions of a ledger whose entry has another id than the one given
KeptPositions(ledger, id) == {i \in 1..Len(ledger) : ledger[i].id # id}

\* `after` is `before` without its entries of the id: the other entries are all
\* there, as they were, in the order they had
IsLedgerWithout(after, before, id) ==
    LET kept == KeptPositions(before, id)
    IN /\ Len(after) = Cardinality(kept)
       /\ \A i \in kept : after[Cardinality({j \in kept : j <= i})] = before[i]

\* C31: removing an entry by id removes exactly the entry of that id, and
\* nothing when no entry has it; every other entry keeps its id, food, grams and
\* place, and the column selection, the targets and the food list stay as they
\* were.  In the Diet Builder page and in the key-based revision.
C31_RemoveTakesOnlyThatEntry ==
    [][/\ lastOp'.op = "removeDietRow"
             => /\ IsLedgerWithout(dietRows', dietRows, lastOp'.id)
                /\ UNCHANGED <<shownNutrientIds, targets, foods>>
       /\ lastOp'.op = "removeEntry"
             => /\ IsLedgerWithout(home'.entries, home.entries, lastOp'.id)
                /\ home'.visibleKeys = home.visibleKeys
                /\ home'.goalsByKey = home.goalsByKey
                /\ home'.foods = home.foods]_vars

\* in both revisions the first of two entries was removed and the second is
\* left; the key-based revision holds a goal
C31_Witness ==
    /\ lastOp.op = "removeEntry"
    /\ lastOp.id = 1
    /\ Len(home.entries) = 1
    /\ home.entries[1].id = 2
    /\ home.goalsByKey["protein"] = "0.045"
    /\ Len(dietRows) = 1
    /\ dietRows[1].id = 2

\* an add request the spec accepts: a food selected, grams finite and above 0
ValidAddRequest ==
    /\ selectedFoodId # ""
    /\ Number(gramsToAdd).k = "num"
    /\ Number(gramsToAdd).v > 0

\* C32: a successful addFoodToDiet appends exactly one entry at the end of the
\* ledger, with the selected food id and the entered grams and an id no entry
\* had; the entries there were stay as they were and in their order; the food
\* selection becomes empty and the grams input 100.
C32_AddAppendsOneEntry ==
    [][(lastOp'.op = "addFoodToDiet" /\ ValidAddRequest)
          => /\ Len(dietRows') = Len(dietRows) + 1
             /\ SubSeq(dietRows', 1, Len(dietRows)) = dietRows
             /\ dietRows'[Len(dietRows')].food_id = selectedFoodId
             /\ dietRows'[Len(dietRows')].grams = Number(gramsToAdd)
             /\ \A i \in 1..Len(dietRows) : dietRows[i].id # dietRows'[Len(dietRows')].id
             /\ selectedFoodId' = ""
             /\ gramsToAdd' = Num(100000)]_vars

\* 150 g of banana were added to a sheet that held an entry, and the form is reset
C32_Witness ==
    /\ lastOp.op = "addFoodToDiet"
    /\ lastOp.key = "banana"
    /\ lastOp.val = "150"
    /\ Len(dietRows) >= 2
    /\ dietRows[1].food_id = "apple"
    /\ dietRows[Len(dietRows)].food_id = "banana"
    /\ dietRows[Len(dietRows)].grams = Num(150000)
    /\ selectedFoodId = ""
    /\ gramsToAdd = Num(100000)

\* the flag of the spec: the goal text of the key is there, is not empty, is a
\* finite number, and `total` is strictly greater than it
AboveGoal(key, total) ==
    /\ key \in DOMAIN home.goalsByKey
    /\ home.goalsByKey[key] # ""
    /\ NumberOfString(home.goalsByKey[key]).k = "num"
    /\ Gt(total, NumberOfString(home.goalsByKey[key]))

KeysResolve(h) ==
    \A key \in SeqRange(h.visibleKeys) \cup DOMAIN h.goalsByKey :
        /\ key \in DOMAIN h.nutrientIdByKey
        /\ h.nutrientIdByKey[key] \in DOMAIN h.nutrientsById
        /\ h.nutrientsById[h.nutrientIdByKey[key]].key = key

\* `after` holds keys of `before` only, in the order they had there
KeepsOrder(after, before) ==
    after = SelectSeq(before, LAMBDA k : k \in SeqRange(after))

\* every cell and every total of the sheet is 0 (a NaN cell is shown and added as 0)
AllValuesZero ==
    /\ \A i \in 1..Len(spreadsheetRows) : \A key \in SeqRange(home.visibleKeys) :
          OrZero(spreadsheetRows[i].valuesByKey[key]) = Num(0)
    /\ \A key \in SeqRange(home.visibleKeys) : totalsByKey[key] = Num(0)

\* C34, the steps: the metadata load that succeeds leaves visible keys and goal
\* keys that all resolve to a nutrient of the catalog, the visible keys left
\* being in the order they had; they go on resolving afterwards; the load that
\* fails, and every step after either answer, leaves the visible keys as they are.
C34_LoadFixesKeys ==
    /\ lastOp'.op = "HomeNutrientMetaLoaded"
          => KeysResolve(home') /\ KeepsOrder(home'.visibleKeys, home.visibleKeys)
    /\ (home.nutrientsRequest = "done" /\ KeysResolve(home)) => KeysResolve(home')
    /\ lastOp'.op = "HomeNutrientMetaFailed" => home'.visibleKeys = home.visibleKeys
    /\ home.nutrientsRequest = "done" => home'.visibleKeys = home.visibleKeys

\* C34, the state: without a key-to-id map, as after a failed load, every value
\* of every visible key is 0.
C34_NoCatalogAllZero ==
    home.nutrientIdByKey = <<>> => AllValuesZero

RECURSIVE EntryShare(_, _, _)
EntryShare(e, nutrientId, n) ==
    IF n = 0 THEN 0
    ELSE LET row == totalsList.foodNutrients[n]
         IN EntryShare(e, nutrientId, n - 1)
            + (IF row.food_id = e.food_id /\ row.nutrient_id = nutrientId
               THEN (row.amount_per_100g.v \div 100) * (e.grams.v \div 1000)
               ELSE 0)

\* the per-entry sum over the entries from the n-th on
RECURSIVE PerEntrySum(_, _)
PerEntrySum(nutrientId, n) ==
    IF n > Len(totalsList.entries) THEN 0
    ELSE EntryShare(totalsList.entries[n], nutrientId, Len(totalsList.foodNutrients))
         + PerEntrySum(nutrientId, n + 1)

\* the grams of a food summed over the entries from the n-th on, in thousandths
RECURSIVE SummedGrams(_, _)
SummedGrams(f, n) ==
    IF n > Len(totalsList.entries) THEN 0
    ELSE (IF totalsList.entries[n].food_id = f THEN totalsList.entries[n].grams.v ELSE 0)
         + SummedGrams(f, n + 1)

\* the nutrients with a cached row of a food whose summed grams is not zero
NutrientsWithShare ==
    {totalsList.foodNutrients[j].nutrient_id :
        j \in {k \in 1..Len(totalsList.foodNutrients) :
                  SummedGrams(totalsList.foodNutrients[k].food_id, 1) # 0}}

\* C35: the totals list has one element for each nutrient that has a returned
\* row of a food whose summed grams is not zero, and no other element; the
\* total of each element is the sum, over all entries, of amount * grams / 100
C35_TotalsEqualPerEntrySum ==
    /\ {totals[i].nutrient_id : i \in 1..Len(totals)} = NutrientsWithShare
    /\ Len(totals) = Cardinality(NutrientsWithShare)
    /\ \A i \in 1..Len(totals) : totals[i].total = Num(PerEntrySum(totals[i].nutrient_id, 1))

\* two entries of apple with different grams and one nutrient list loaded for
\* them: both nutrients of apple are listed
C35_Witness ==
    /\ Len(totalsList.entries) = 2
    /\ totalsList.entries[1].food_id = "apple" /\ totalsList.entries[2].food_id = "apple"
    /\ totalsList.entries[1].grams # totalsList.entries[2].grams
    /\ Len(totals) = 2
    /\ totals[1].name = "Calories" /\ totals[2].name = "Protein"

====
